---- MODULE Spec2Model ----
(***************************************************************************)
(* The task store of the task tracker (src/models.py, class TaskManager)   *)
(* over its SQLite file, and the request handlers of src/app.py that call  *)
(* it.  Several request threads (Procs) run store calls concurrently.      *)
(* Every store call opens its own connection; a connection reads the       *)
(* committed file, and its first INSERT/UPDATE opens a transaction that    *)
(* holds the file's single write lock up to commit.  Database.init_db and  *)
(* its MigrationManager bring the file of an earlier version up to date    *)
(* when the application is started.  UserManager and SystemSettingsManager *)
(* work on the users and system_settings tables of the same file.  The     *)
(* EmailSender of src/mail_service.py queues notifications for its worker  *)
(* thread.                                                                 *)
(***************************************************************************)
EXTENDS Integers, Sequences, FiniteSets, TLC

VARIABLES
    now,      \* the clock, in ticks, UTC (CURRENT_TIMESTAMP, date('now'))
    tz,       \* the server's local-time offset from UTC, in ticks
    db,       \* the committed content of the data file
    wdb,      \* the content as seen inside the open write transaction
    writer,   \* the request thread holding the write lock, or NoProc
    pc,       \* per thread: the statement it is about to execute
    op,       \* per thread: the store call it runs (name and arguments)
    loc,      \* per thread: the local variables of that call
    ret,      \* per thread: what its last finished call returned or raised
    mig,      \* the run of Database.init_db and its MigrationManager object
    backups,  \* the files of the backups directory next to the data file
    mail      \* the EmailSender: its queue, its worker thread, the SMTP settings

vars == <<now, tz, db, wdb, writer, pc, op, loc, ret, mig, backups, mail>>

----------------------------------------------------------------------------
(* Bounds of the model *)

MaxTasks == 2
MaxHist == 2
MaxNow == 2
TicksPerDay == 2

Procs == {"p1", "p2"}
NoProc == "none"
NULL == "NULL"

----------------------------------------------------------------------------
(* Values *)

STATUS_LABELS == {"new", "in_progress", "testing", "done", "cancelled"}
PRIORITY_LABELS == {"critical", "high", "medium", "low"}
URGENCY_LABELS == {"critical", "high", "medium", "low"}
StatusNew == "new"
ActionCreated == "task created"
ActionUpdated == "task updated"
ActionComment == "comment added"

\* The columns of table tasks, in the order _dict_from_row reads them.
TaskKeys ==
    {"id", "number", "title", "description", "priority", "urgency", "status",
     "progress", "created_by", "assigned_to", "created_at", "updated_at"}

UtcDate(t) == t \div TicksPerDay
LocalDate(t, off) == (t + off) \div TicksPerDay

RECURSIVE Digits(_)
Digits(n) == IF n < 10 THEN <<n>> ELSE Digits(n \div 10) \o <<n % 10>>

\* format spec 04d: at least four digits, padded with zeros on the left
Pad4(n) ==
    LET ds == Digits(n)
    IN  IF Len(ds) >= 4 THEN ds
        ELSE [i \in 1..(4 - Len(ds)) |-> 0] \o ds

\* f"TASK-{date_str}-{sequence:04d}"
FormatNumber(date, sequence) ==
    [prefix |-> "TASK", date |-> date, seq |-> Pad4(sequence)]

\* number LIKE 'TASK-{date_str}-%'
LikeTaskDate(number, date) == number.prefix = "TASK" /\ number.date = date

----------------------------------------------------------------------------
(* Rows and queries *)

\* The file as Database.init_db leaves a fresh installation: the tables
\* exist and are empty, but for the seeded administrator.
\* (of table users the model keeps the columns id, username, role, name and
\* the two columns the migrator adds; a timestamp of that table is kept as
\* the text SQLite stores)
\* werkzeug.security.generate_password_hash: a salted digest of the password
generate_password_hash(password, salt) ==
    [salt |-> salt, digest |-> <<salt, password>>]

\* werkzeug.security.check_password_hash: the digest of the password under
\* the salt of the stored hash equals the stored digest
check_password_hash(pwhash, password) ==
    pwhash.digest = generate_password_hash(password, pwhash.salt).digest

\* Database._generate_admin_password, printed once by init_db
AdminPassword == "generated"
AdminSalt == "s0"

AdminRow ==
    [id |-> 1, username |-> "admin",
     password |-> generate_password_hash(AdminPassword, AdminSalt),
     role |-> "admin", name |-> "Administrator",
     email |-> NULL, created_at |-> ToString(0), updated_at |-> ToString(0)]

\* the columns of the CREATE TABLE statements of init_db
UsersColumnsV1 == <<"id", "username", "password", "role", "name", "created_at">>
UsersColumnsV2 == UsersColumnsV1 \o <<"email">>
DDL ==
    [users |-> <<"id", "username", "password", "role", "name", "email",
                 "created_at", "updated_at">>,
     tasks |-> <<"id", "number", "title", "description", "priority", "urgency",
                 "status", "progress", "created_by", "assigned_to", "created_at",
                 "updated_at">>,
     task_history |-> <<"id", "task_id", "action", "user", "changes", "timestamp">>,
     task_comments |-> <<"id", "task_id", "user", "text", "timestamp">>,
     system_settings |-> <<"id", "setting_key", "setting_value", "updated_at">>]

default_settings ==
    [password_min_length |-> "6", password_require_digits |-> "false",
     password_require_special |-> "false"]

\* the keys of default_settings in the order of the dict
DefaultKeys ==
    <<"password_min_length", "password_require_digits", "password_require_special">>

\* a row of system_settings (updated_at DEFAULT CURRENT_TIMESTAMP)
SettingRow(key, value, t) ==
    [setting_key |-> key, setting_value |-> value, updated_at |-> ToString(t)]

\* setting_key TEXT UNIQUE NOT NULL: the rows in conflict with a new row
HasSetting(rows, key) == \E i \in 1..Len(rows) : rows[i].setting_key = key

\* INSERT OR IGNORE INTO system_settings (setting_key, setting_value)
InsertOrIgnore(rows, key, value, t) ==
    IF HasSetting(rows, key) THEN rows ELSE Append(rows, SettingRow(key, value, t))

\* for key, value in default_settings.items(): INSERT OR IGNORE
InsertDefaults(rows, t) ==
    LET r1 == InsertOrIgnore(rows, DefaultKeys[1], default_settings[DefaultKeys[1]], t)
        r2 == InsertOrIgnore(r1, DefaultKeys[2], default_settings[DefaultKeys[2]], t)
    IN  InsertOrIgnore(r2, DefaultKeys[3], default_settings[DefaultKeys[3]], t)

EmptyDb ==
    [tasks |-> <<>>, history |-> <<>>, comments |-> <<>>, users |-> <<AdminRow>>,
     schema |-> DDL, settings |-> InsertDefaults(<<>>, 0)]

\* UserManager.user_name_exists
user_name_exists(d, name) ==
    /\ name # ""
    /\ \E i \in 1..Len(d.users) : d.users[i].name = name

\* SELECT * FROM tasks WHERE id = ?  (ids are AUTOINCREMENT rowids and no
\* statement deletes a task, so the row with id i is the i-th row)
HasTask(d, id) == id \in 1..Len(d.tasks)
TaskRow(d, id) == d.tasks[id]

\* SELECT COUNT(*) FROM tasks
\*   WHERE number LIKE 'TASK-<date_str>-%' AND date(created_at) = date('now')
CountToday(d, date_str, t) ==
    Cardinality({i \in 1..Len(d.tasks) :
                    /\ LikeTaskDate(d.tasks[i].number, date_str)
                    /\ UtcDate(d.tasks[i].created_at) = UtcDate(t)})

\* datetime.now() is local time, date('now') and CURRENT_TIMESTAMP are UTC
generate_task_number(d, t, off) ==
    LET date_str == LocalDate(t, off)
        sequence == CountToday(d, date_str, t) + 1
    IN  FormatNumber(date_str, sequence)

\* a schema whose number column lacks UNIQUE
NumberTakenNoConstraint(d, number, id) == FALSE

\* the UNIQUE constraint of tasks.number, for a row other than `id`
NumberTaken(d, number, id) ==
    \E i \in 1..Len(d.tasks) : i # id /\ d.tasks[i].number = number

\* INSERT INTO tasks (...) VALUES (number, ..., 'new', 0, created_by, assigned_to)
NewTaskRow(id, number, task_data, t) ==
    [id |-> id, number |-> number, title |-> task_data.title,
     description |-> task_data.description, priority |-> task_data.priority,
     urgency |-> task_data.urgency, status |-> StatusNew, progress |-> 0,
     created_by |-> task_data.created_by, assigned_to |-> task_data.assigned_to,
     created_at |-> t, updated_at |-> t]

\* INSERT INTO task_history (task_id, action, user, changes)
HistoryRow(d, task_id, action, user, changes, t) ==
    [id |-> Len(d.history) + 1, task_id |-> task_id, action |-> action,
     user |-> user, changes |-> changes, timestamp |-> t]

\* INSERT INTO task_comments (task_id, user, text)
CommentRow(d, task_id, user, text, t) ==
    [id |-> Len(d.comments) + 1, task_id |-> task_id, user |-> user,
     text |-> text, timestamp |-> t]

\* an INSERT that puts the new row before the others
InsertHistoryFirst(d, row) == [d EXCEPT !.history = <<row>> \o @]

InsertTask(d, row) == [d EXCEPT !.tasks = Append(@, row)]
InsertHistory(d, row) == [d EXCEPT !.history = Append(@, row)]
InsertComment(d, row) == [d EXCEPT !.comments = Append(@, row)]

\* A Python dict is kept as the sequence of its <<key, value>> items, in
\* insertion order.  json.dumps writes the items in that order; json.loads
\* gives back the mapping from key to value.
JsonDumps(items) == [i \in 1..Len(items) |-> [key |-> items[i][1], val |-> items[i][2]]]
JsonLoads(text) ==
    [k \in {text[i].key : i \in 1..Len(text)} |->
        text[CHOOSE i \in 1..Len(text) :
                /\ text[i].key = k
                /\ \A j \in (i+1)..Len(text) : text[j].key # k].val]

\* the loop without the comparison with the current value
ChangedItemsNoCompare(current_task, updates) ==
    SelectSeq(updates, LAMBDA kv : kv[1] \in TaskKeys)

\* the loop leaving after the first changed field
ChangedItemsFirstOnly(current_task, updates) ==
    LET items == SelectSeq(updates,
                           LAMBDA kv : kv[1] \in TaskKeys /\ current_task[kv[1]] # kv[2])
    IN  IF items = <<>> THEN items ELSE <<items[1]>>

\* for key, value in updates.items():
\*     if key in current_task and current_task[key] != value: ...
\* the items of `updates` that name a column and differ from the row read
ChangedItems(current_task, updates) ==
    SelectSeq(updates,
              LAMBDA kv : kv[1] \in TaskKeys /\ current_task[kv[1]] # kv[2])

\* the change record with old and new value exchanged
ChangesOfSwapped(current_task, updates) ==
    LET items == SelectSeq(updates,
                           LAMBDA kv : kv[1] \in TaskKeys /\ current_task[kv[1]] # kv[2])
    IN  [i \in 1..Len(items) |->
            <<items[i][1], [from |-> items[i][2], to |-> current_task[items[i][1]]]>>]

\* changes[key] = {'from': current_task[key], 'to': value}
ChangesOf(current_task, updates) ==
    LET items == ChangedItems(current_task, updates)
    IN  [i \in 1..Len(items) |->
            <<items[i][1], [from |-> current_task[items[i][1]], to |-> items[i][2]]>>]

\* the value UPDATE ... SET k1 = ?, k2 = ?, ..., updated_at = CURRENT_TIMESTAMP
\* gives column k: of several assignments to one column the rightmost wins
SetValue(row, items, k, t) ==
    IF k = "updated_at" THEN t
    ELSE IF \E i \in 1..Len(items) : items[i][1] = k
         THEN items[CHOOSE i \in 1..Len(items) : items[i][1] = k][2]
         ELSE row[k]

\* UPDATE tasks SET ..., updated_at = CURRENT_TIMESTAMP WHERE id = ?
UpdateRow(d, id, items, t) ==
    [d EXCEPT !.tasks[id] = [k \in TaskKeys |-> SetValue(@, items, k, t)]]

\* ORDER BY of SQLite: the rows are sorted by the key, and rows with equal
\* keys come out in the order of the table scan, that is by rowid (the
\* sorter is a stable merge sort).
RankAsc(rows, Key(_), i) ==
    Cardinality({j \in 1..Len(rows) :
                    \/ Key(rows[j]) < Key(rows[i])
                    \/ Key(rows[j]) = Key(rows[i]) /\ j < i}) + 1
OrderByAsc(rows, Key(_)) ==
    [q \in 1..Len(rows) |->
        rows[CHOOSE i \in 1..Len(rows) : RankAsc(rows, Key, i) = q]]

RankDesc(rows, Key(_), i) ==
    Cardinality({j \in 1..Len(rows) :
                    \/ Key(rows[j]) > Key(rows[i])
                    \/ Key(rows[j]) = Key(rows[i]) /\ j < i}) + 1
OrderByDesc(rows, Key(_)) ==
    [q \in 1..Len(rows) |->
        rows[CHOOSE i \in 1..Len(rows) : RankDesc(rows, Key, i) = q]]

Timestamp(r) == r.timestamp
CreatedAt(r) == r.created_at

\* a SELECT without the WHERE task_id = ?
RowsOfAnyTask(rows, task_id) == OrderByAsc(rows, Timestamp)

\* SELECT * FROM task_history WHERE task_id = ? ORDER BY timestamp
\* SELECT * FROM task_comments WHERE task_id = ? ORDER BY timestamp
RowsOf(rows, task_id) ==
    OrderByAsc(SelectSeq(rows, LAMBDA r : r.task_id = task_id), Timestamp)

\* the statuses get_tasks_filtered leaves out
TerminalStatuses == {"done", "cancelled"}

\* get_tasks_filtered with the WHERE clause whatever include_closed is
get_tasks_always_filtered(d, include_closed) ==
    OrderByDesc(SelectSeq(d.tasks, LAMBDA r : r.status \notin TerminalStatuses),
                CreatedAt)

\* SELECT * FROM tasks [WHERE status NOT IN ('done', 'cancelled')]
\*   ORDER BY datetime(created_at) DESC
get_tasks_filtered(d, include_closed) ==
    LET tasks == IF include_closed THEN d.tasks
                 ELSE SelectSeq(d.tasks, LAMBDA r : r.status \notin TerminalStatuses)
    IN  OrderByDesc(tasks, CreatedAt)

\* _history_from_row
HistoryFromRow(h) ==
    [id |-> h.id, task_id |-> h.task_id, action |-> h.action, user |-> h.user,
     changes |-> JsonLoads(h.changes), timestamp |-> h.timestamp]

SelectHistory(d, task_id) ==
    LET rows == RowsOf(d.history, task_id)
    IN  [i \in 1..Len(rows) |-> HistoryFromRow(rows[i])]

SelectComments(d, task_id) == RowsOf(d.comments, task_id)

\* comment[:50] + '...' if len(comment) > 50 else comment
PreviewLen == 50
Ellipsis == <<".", ".", ".">>

\* the test written len(comment) >= 50
PreviewFromLimit(comment) ==
    IF Len(comment) >= PreviewLen
    THEN SubSeq(comment, 1, PreviewLen) \o Ellipsis
    ELSE comment

Preview(comment) ==
    IF Len(comment) > PreviewLen
    THEN SubSeq(comment, 1, PreviewLen) \o Ellipsis
    ELSE comment

----------------------------------------------------------------------------
(* Inputs of the store calls *)

TzOffsets == {0, 1}
Creators == {"ann"}
Actors == {"bob"}

TaskData ==
    [title : {"t"}, description : {"d"}, priority : {"high"}, urgency : {"low"},
     created_by : Creators, assigned_to : {NULL}]

ForeignNumber == FormatNumber(0, 7)

\* dicts passed as `updates`, as item sequences
UpdateMaps ==
    { <<>>,
      << <<"status", "new">> >>,
      << <<"status", "done">> >>,
      << <<"progress", 50>> >>,
      << <<"urgency", "high">> >>,
      << <<"assigned_to", "bob">> >>,
      << <<"status", "done">>, <<"progress", 0>>, <<"priority", "low">>,
         <<"colour", "red">> >>,
      << <<"number", ForeignNumber>>, <<"created_by", "eve">> >> }

\* the updates that race with each other and with readers
RacingMaps ==
    { << <<"status", "done">> >>,
      << <<"status", "testing">>, <<"progress", 50>> >> }

CommentTexts == { <<"o", "k">> }

\* comment texts as long as the preview limit, one shorter and longer ones
Alphabet == <<"a", "b", "c", "d", "e", "f", "g">>
TextOfLen(n) == [i \in 1..n |-> Alphabet[((i - 1) % Len(Alphabet)) + 1]]
BoundaryTexts ==
    {TextOfLen(n) : n \in {PreviewLen - 1, PreviewLen, PreviewLen + 1, PreviewLen + 4}}
CommentForms == CommentTexts \cup BoundaryTexts

TaskIds == 1..MaxTasks

----------------------------------------------------------------------------
(* State of a request thread *)

NoOp == [name |-> "none"]
NoLoc ==
    [task_id |-> 0, task_number |-> NULL, items |-> <<>>, changes |-> <<>>,
     task_dict |-> NULL, history |-> <<>>]
NoRet == [kind |-> "none"]
RetNone == [kind |-> "None"]
RetIntegrityError == [kind |-> "IntegrityError"]
RetCrashed == [kind |-> "crashed"]

\* no init_db is running
NoCache == [t \in {} |-> <<>>]
MigOff ==
    [pc |-> "off", i |-> 0, pending_actions |-> <<>>, columns_cache |-> NoCache,
     failure |-> NULL, runs |-> 0, completed |-> 0]

\* settings without a verification_token_hash
NoHash == [salt |-> NULL, digest |-> <<>>]

\* no SMTP settings are stored: get_settings() returns nothing
NoSmtp ==
    [present |-> FALSE, verified |-> FALSE, verification_token_hash |-> NoHash,
     smtp_server |-> NULL, admin_email |-> NULL]

\* the worker thread waits in self._queue.get()
WorkerWaits == [pc |-> "get", job |-> NULL, settings |-> NoSmtp]

\* EmailSender.__init__: an empty queue.Queue() and a started worker; sent
\* is what the SMTP server has accepted, logged the jobs logger.exception
\* reported, done the jobs task_done was called for
MailOff ==
    [settings |-> NoSmtp, queue |-> <<>>, unfinished_tasks |-> 0, puts |-> 0,
     worker |-> WorkerWaits, sent |-> <<>>, logged |-> <<>>, done |-> <<>>]

Idle(p) == pc[p] = "idle"
AllIdle == \A p \in Procs : Idle(p)

\* the calls in flight that have not yet written their history row
BeforeHistory ==
    {"gen_number", "ins_task", "ins_hist", "upd_select", "upd_write",
     "upd_hist", "cmt_ins", "cmt_hist"}
BeforeTask == {"gen_number", "ins_task"}

HistoryBudget ==
    Len(wdb.history) + Cardinality({p \in Procs : pc[p] \in BeforeHistory}) < MaxHist
TaskBudget ==
    Len(wdb.tasks) + Cardinality({p \in Procs : pc[p] \in BeforeTask}) < MaxTasks

Init ==
    /\ now = 0
    /\ tz \in TzOffsets
    /\ db = EmptyDb
    /\ wdb = EmptyDb
    /\ writer = NoProc
    /\ pc = [p \in Procs |-> "idle"]
    /\ op = [p \in Procs |-> NoOp]
    /\ loc = [p \in Procs |-> NoLoc]
    /\ ret = [p \in Procs |-> NoRet]
    /\ mig = MigOff
    /\ backups = {}
    /\ mail = MailOff

\* a call returns or raises: its connection is closed
Finish(p, value) ==
    /\ pc' = [pc EXCEPT ![p] = "done"]
    /\ loc' = [loc EXCEPT ![p] = NoLoc]
    /\ ret' = [ret EXCEPT ![p] = value]

\* the request is answered and the thread takes the next one
Return(p) ==
    /\ pc[p] = "done"
    /\ pc' = [pc EXCEPT ![p] = "idle"]
    /\ op' = [op EXCEPT ![p] = NoOp]
    /\ ret' = [ret EXCEPT ![p] = NoRet]
    /\ UNCHANGED <<mail, mig, backups, now, tz, db, wdb, writer, loc>>

Goto(p, label) == pc' = [pc EXCEPT ![p] = label]

Call(p, call, label) ==
    /\ Idle(p)
    /\ op' = [op EXCEPT ![p] = call]
    /\ loc' = [loc EXCEPT ![p] = [NoLoc EXCEPT !.task_id =
                                    IF call.name = "add_task" THEN 0 ELSE call.task_id]]
    /\ Goto(p, label)
    /\ UNCHANGED <<mail, mig, backups, now, tz, db, wdb, writer, ret>>

----------------------------------------------------------------------------
(* TaskManager.add_task *)

BeginCreate(p, task_data) ==
    /\ TaskBudget /\ HistoryBudget
    /\ Call(p, [name |-> "add_task", task_data |-> task_data], "gen_number")

\* task_number = self.generate_task_number()
GenNumber(p) ==
    /\ pc[p] = "gen_number"
    /\ loc' = [loc EXCEPT ![p].task_number = generate_task_number(db, now, tz)]
    /\ Goto(p, "ins_task")
    /\ UNCHANGED <<mail, mig, backups, now, tz, db, wdb, writer, op, ret>>

\* INSERT INTO tasks: opens the transaction; raises IntegrityError when the
\* number is taken, and the exception leaves add_task with nothing committed
InsTask(p) ==
    /\ pc[p] = "ins_task"
    /\ writer = NoProc
    /\ IF NumberTaken(db, loc[p].task_number, 0)
       THEN /\ Finish(p, RetIntegrityError)
            /\ UNCHANGED <<wdb, writer>>
       ELSE /\ wdb' = InsertTask(db, NewTaskRow(Len(db.tasks) + 1, loc[p].task_number,
                                                op[p].task_data, now))
            /\ writer' = p
            /\ loc' = [loc EXCEPT ![p].task_id = Len(db.tasks) + 1]
            /\ Goto(p, "ins_hist")
            /\ UNCHANGED ret
    /\ UNCHANGED <<mail, mig, backups, now, tz, db, op>>

\* INSERT INTO task_history (task_id, 'task created', created_by, '{}')
InsHist(p) ==
    /\ pc[p] = "ins_hist"
    /\ wdb' = InsertHistory(wdb, HistoryRow(wdb, loc[p].task_id, ActionCreated,
                                            op[p].task_data.created_by,
                                            JsonDumps(<<>>), now))
    /\ Goto(p, "commit")
    /\ UNCHANGED <<mail, mig, backups, now, tz, db, writer, op, loc, ret>>

\* conn.commit(); conn.close(); return self.get_task(task_id)
Commit(p) ==
    /\ pc[p] = "commit"
    /\ writer = p
    /\ db' = wdb
    /\ writer' = NoProc
    /\ Goto(p, "get_row")
    /\ UNCHANGED <<mail, mig, backups, now, tz, wdb, op, loc, ret>>

----------------------------------------------------------------------------
(* TaskManager.get_task: three SELECTs, each reading the committed file *)

BeginGet(p, task_id) ==
    /\ task_id \in TaskIds
    /\ Call(p, [name |-> "get_task", task_id |-> task_id], "get_row")

GetRow(p) ==
    /\ pc[p] = "get_row"
    /\ IF HasTask(db, loc[p].task_id)
       THEN /\ loc' = [loc EXCEPT ![p].task_dict = TaskRow(db, loc[p].task_id)]
            /\ Goto(p, "get_hist")
            /\ UNCHANGED ret
       ELSE Finish(p, RetNone)
    /\ UNCHANGED <<mail, mig, backups, now, tz, db, wdb, writer, op>>

GetHist(p) ==
    /\ pc[p] = "get_hist"
    /\ loc' = [loc EXCEPT ![p].history = SelectHistory(db, loc[p].task_id)]
    /\ Goto(p, "get_comm")
    /\ UNCHANGED <<mail, mig, backups, now, tz, db, wdb, writer, op, ret>>

GetComm(p) ==
    /\ pc[p] = "get_comm"
    /\ Finish(p, [kind |-> "task", task |-> loc[p].task_dict,
                  history |-> loc[p].history,
                  comments |-> SelectComments(db, loc[p].task_id)])
    /\ UNCHANGED <<mail, mig, backups, now, tz, db, wdb, writer, op>>

----------------------------------------------------------------------------
(* TaskManager.get_tasks_filtered: one SELECT on the committed file *)

GetTasksFiltered(p, include_closed) ==
    /\ Idle(p)
    /\ op' = [op EXCEPT ![p] = [name |-> "get_tasks_filtered",
                                include_closed |-> include_closed]]
    /\ Finish(p, [kind |-> "list", tasks |-> get_tasks_filtered(db, include_closed)])
    /\ UNCHANGED <<mail, mig, backups, now, tz, db, wdb, writer>>

----------------------------------------------------------------------------
(* TaskManager.update_task *)

BeginUpdate(p, task_id, updates, user) ==
    /\ HistoryBudget
    /\ Call(p, [name |-> "update_task", task_id |-> task_id, updates |-> updates,
                user |-> user], "upd_select")

\* update_task without the return for a missing row: the call goes on to its
\* INSERT INTO task_history
UpdSelectNoCheck(p) ==
    /\ pc[p] = "upd_select"
    /\ IF HasTask(db, loc[p].task_id)
       THEN LET current_task == TaskRow(db, loc[p].task_id)
                items == ChangedItems(current_task, op[p].updates)
            IN  /\ loc' = [loc EXCEPT ![p].items = items,
                                      ![p].changes = ChangesOf(current_task, op[p].updates)]
                /\ Goto(p, IF items = <<>> THEN "get_row" ELSE "upd_write")
                /\ UNCHANGED <<writer, ret>>
       ELSE /\ writer = NoProc
            /\ writer' = p
            /\ Goto(p, "upd_hist")
            /\ UNCHANGED <<loc, ret>>
    /\ UNCHANGED <<mail, mig, backups, now, tz, db, wdb, op>>

\* SELECT the current row; build changes, set_parts and params
UpdSelect(p) ==
    /\ pc[p] = "upd_select"
    /\ IF HasTask(db, loc[p].task_id)
       THEN LET current_task == TaskRow(db, loc[p].task_id)
                items == ChangedItems(current_task, op[p].updates)
            IN  /\ loc' = [loc EXCEPT ![p].items = items,
                                      ![p].changes = ChangesOf(current_task, op[p].updates)]
                /\ Goto(p, IF items = <<>> THEN "get_row" ELSE "upd_write")
                /\ UNCHANGED ret
       ELSE Finish(p, RetNone)
    /\ UNCHANGED <<mail, mig, backups, now, tz, db, wdb, writer, op>>

NewNumberTaken(d, id, items) ==
    \E i \in 1..Len(items) :
        items[i][1] = "number" /\ NumberTaken(d, items[i][2], id)

\* UPDATE tasks SET ... WHERE id = ?: opens the transaction
UpdWrite(p) ==
    /\ pc[p] = "upd_write"
    /\ writer = NoProc
    /\ IF NewNumberTaken(db, loc[p].task_id, loc[p].items)
       THEN /\ Finish(p, RetIntegrityError)
            /\ UNCHANGED <<wdb, writer>>
       ELSE /\ wdb' = UpdateRow(db, loc[p].task_id, loc[p].items, now)
            /\ writer' = p
            /\ Goto(p, "upd_hist")
            /\ UNCHANGED <<loc, ret>>
    /\ UNCHANGED <<mail, mig, backups, now, tz, db, op>>

\* INSERT INTO task_history (task_id, 'task updated', user, json.dumps(changes))
UpdHist(p) ==
    /\ pc[p] = "upd_hist"
    /\ wdb' = InsertHistory(wdb, HistoryRow(wdb, loc[p].task_id, ActionUpdated,
                                            op[p].user, JsonDumps(loc[p].changes), now))
    /\ Goto(p, "commit")
    /\ UNCHANGED <<mail, mig, backups, now, tz, db, writer, op, loc, ret>>

----------------------------------------------------------------------------
(* TaskManager.add_comment *)

BeginComment(p, task_id, comment, user) ==
    /\ HistoryBudget
    /\ Call(p, [name |-> "add_comment", task_id |-> task_id, comment |-> comment,
                user |-> user], "cmt_ins")

\* INSERT INTO task_comments: opens the transaction
CmtIns(p) ==
    /\ pc[p] = "cmt_ins"
    /\ writer = NoProc
    /\ wdb' = InsertComment(db, CommentRow(db, loc[p].task_id, op[p].user,
                                           op[p].comment, now))
    /\ writer' = p
    /\ Goto(p, "cmt_hist")
    /\ UNCHANGED <<mail, mig, backups, now, tz, db, op, loc, ret>>

\* add_comment without its INSERT INTO task_history
CmtHistSkipped(p) ==
    /\ pc[p] = "cmt_hist"
    /\ Goto(p, "commit")
    /\ UNCHANGED <<mail, mig, backups, now, tz, db, wdb, writer, op, loc, ret>>

\* INSERT INTO task_history (task_id, 'comment added', user, {'comment': preview})
CmtHist(p) ==
    /\ pc[p] = "cmt_hist"
    /\ wdb' = InsertHistory(wdb, HistoryRow(wdb, loc[p].task_id, ActionComment,
                                            op[p].user,
                                            JsonDumps(<< <<"comment", Preview(op[p].comment)>> >>),
                                            now))
    /\ Goto(p, "commit")
    /\ UNCHANGED <<mail, mig, backups, now, tz, db, writer, op, loc, ret>>

----------------------------------------------------------------------------
(* The environment *)

\* the request thread dies inside its transaction: SQLite rolls it back
Crash(p) ==
    /\ writer = p
    /\ wdb' = db
    /\ writer' = NoProc
    /\ Finish(p, RetCrashed)
    /\ UNCHANGED <<mail, mig, backups, now, tz, db, op>>

Tick ==
    /\ now < MaxNow
    /\ now' = now + 1
    /\ UNCHANGED <<mail, mig, backups, tz, db, wdb, writer, pc, op, loc, ret>>

Step(p) ==
    \/ GenNumber(p) \/ InsTask(p) \/ InsHist(p) \/ Commit(p)
    \/ GetRow(p) \/ GetHist(p) \/ GetComm(p)
    \/ UpdSelect(p) \/ UpdWrite(p) \/ UpdHist(p)
    \/ CmtIns(p) \/ CmtHist(p)
    \/ Return(p)

\* Concurrent request threads
Begin(p) ==
    \/ \E task_data \in TaskData : BeginCreate(p, task_data)
    \/ \E id \in TaskIds : BeginGet(p, id)
    \/ \E include_closed \in BOOLEAN : GetTasksFiltered(p, include_closed)
    \/ \E id \in TaskIds, updates \in RacingMaps, user \in Actors :
          BeginUpdate(p, id, updates, user)
    \/ \E id \in TaskIds, comment \in CommentTexts, user \in Actors :
          BeginComment(p, id, comment, user)

Next ==
    \E p \in Procs : Begin(p) \/ Step(p) \/ Crash(p)

\* a server whose local time is UTC
InitUtc ==
    /\ Init
    /\ tz = 0

\* the requests of one burst arrive within one tick of the clock
Spec == InitUtc /\ [][Next]_vars

\* Serialized calls: one thread, one call at a time
Main == "p1"

BeginSerial ==
    \/ \E task_data \in TaskData : BeginCreate(Main, task_data)
    \/ \E id \in TaskIds : BeginGet(Main, id)
    \/ \E include_closed \in BOOLEAN : GetTasksFiltered(Main, include_closed)
    \/ \E id \in TaskIds, updates \in UpdateMaps, user \in Actors :
          BeginUpdate(Main, id, updates, user)
    \/ \E id \in TaskIds, comment \in CommentTexts, user \in Actors :
          BeginComment(Main, id, comment, user)

NextSerial ==
    \/ BeginSerial
    \/ Step(Main)
    \/ Tick

SpecSerial == InitUtc /\ [][NextSerial]_vars

\* Serialized creation at any time of day
NextCreates ==
    \/ \E task_data \in TaskData : BeginCreate(Main, task_data)
    \/ GenNumber(Main) \/ InsTask(Main) \/ InsHist(Main) \/ Commit(Main)
    \/ GetRow(Main) \/ GetHist(Main) \/ GetComm(Main) \/ Return(Main)
    \/ Tick

SpecCreates == Init /\ [][NextCreates]_vars

----------------------------------------------------------------------------
(* Database.init_db and its MigrationManager, run on the main thread when   *)
(* the application is started                                               *)

MaxRuns == 2

\* the ensure_table calls of init_db, in their order
Tables == <<"users", "tasks", "task_history", "task_comments", "system_settings">>

\* the ensure_column calls of init_db, in their order
EnsuredColumns ==
    << [table |-> "users", column |-> "email", column_type |-> "TEXT",
        fill_expression |-> NULL],
       [table |-> "users", column |-> "updated_at", column_type |-> "TIMESTAMP",
        fill_expression |-> "CURRENT_TIMESTAMP"] >>

Range(seq) == {seq[i] : i \in 1..Len(seq)}

\* SELECT name FROM sqlite_master WHERE type = "table" AND name = ?
HasTable(d, name) == name \in DOMAIN d.schema

\* PRAGMA table_info(table): no row for a table that does not exist
TableInfo(d, table) == IF HasTable(d, table) THEN d.schema[table] ELSE <<>>

\* cursor.execute(ddl)
CreateTable(d, name) == [d EXCEPT !.schema = (name :> DDL[name]) @@ @]

\* self._columns_cache.pop(name, None)
Pop(cache, name) == [t \in (DOMAIN cache) \ {name} |-> cache[t]]

\* _get_columns: the cache after the call
GetColumns(cache, d, table) ==
    IF table \in DOMAIN cache THEN cache
    ELSE (table :> TableInfo(d, table)) @@ cache

\* an ensure_column that never finds the column
ColumnPresentNever(columns, column) == FALSE

\* column in columns
ColumnPresent(columns, column) == column \in Range(columns)

\* datetime.utcnow().strftime('%Y%m%d%H%M%S'); f'{db_path.stem}_{timestamp}.bak'
BackupName(t) == [stem |-> "tasks", timestamp |-> t]

\* shutil.copy2(db_path, backup_path): the copy replaces a file of that name
CopyFile(dir, name, content) ==
    {f \in dir : f.name # name} \cup {[name |-> name, content |-> content]}

\* an apply that goes on after the copy has failed
AfterBackupIgnored(copy_ok) == "alter"

\* an exception of _backup_database leaves apply and init_db
AfterBackup(copy_ok) == IF copy_ok THEN "alter" ELSE "raised"

\* an ALTER TABLE that rebuilds the table and loses the names
AddNullColumnRebuilt(rows, column) ==
    [i \in 1..Len(rows) |-> (column :> NULL) @@ [rows[i] EXCEPT !.name = ""]]

\* ALTER TABLE table ADD COLUMN column: the rows get NULL in the new column
AddNullColumn(rows, column) ==
    [i \in 1..Len(rows) |-> (column :> NULL) @@ rows[i]]
AlterTableAddColumn(d, table, column) ==
    [d EXCEPT !.schema[table] = Append(@, column),
              !.users = IF table = "users" THEN AddNullColumn(@, column) ELSE @]

\* the value of a fill expression at time t
EvalFill(fill_expression, t) ==
    IF fill_expression = "CURRENT_TIMESTAMP" THEN ToString(t) ELSE fill_expression

\* an apply without its UPDATE
FillColumnSkipped(rows, column, value) == rows

\* UPDATE table SET column = fill_expression WHERE column IS NULL
FillColumn(rows, column, value) ==
    [i \in 1..Len(rows) |->
        IF rows[i][column] = NULL THEN [rows[i] EXCEPT ![column] = value]
        ELSE rows[i]]
UpdateFill(d, table, column, value) ==
    [d EXCEPT !.users = IF table = "users" THEN FillColumn(@, column, value) ELSE @]

\* the next queued action of apply, or its commit
NextPending(m) ==
    IF m.i < Len(m.pending_actions)
    THEN [m EXCEPT !.pc = "alter", !.i = @ + 1]
    ELSE [m EXCEPT !.pc = "apply_commit", !.i = 0]

\* conn = sqlite3.connect(self.db_path); migrator = MigrationManager(...)
StartInit ==
    /\ mig.pc \in {"off", "raised"}
    /\ mig.runs < MaxRuns
    /\ AllIdle /\ writer = NoProc
    /\ mig' = [mig EXCEPT !.pc = "ensure_table", !.i = 1, !.pending_actions = <<>>,
                          !.columns_cache = NoCache, !.failure = NULL,
                          !.runs = @ + 1]
    /\ UNCHANGED <<mail, backups, now, tz, db, wdb, writer, pc, op, loc, ret>>

\* MigrationManager.ensure_table: CREATE TABLE runs outside a transaction
EnsureTable ==
    /\ mig.pc = "ensure_table"
    /\ LET name == Tables[mig.i]
           exists == HasTable(db, name)
           next == IF mig.i < Len(Tables)
                   THEN [mig EXCEPT !.i = @ + 1]
                   ELSE [mig EXCEPT !.pc = "ensure_column", !.i = 1]
       IN  /\ db' = IF exists THEN db ELSE CreateTable(db, name)
           /\ wdb' = db'
           /\ mig' = IF exists THEN next
                     ELSE [next EXCEPT !.columns_cache = Pop(@, name)]
    /\ UNCHANGED <<mail, backups, now, tz, writer, pc, op, loc, ret>>

\* MigrationManager.ensure_column
EnsureColumn ==
    /\ mig.pc = "ensure_column"
    /\ LET a == EnsuredColumns[mig.i]
           cache == GetColumns(mig.columns_cache, db, a.table)
           present == ColumnPresent(cache[a.table], a.column)
           last == mig.i = Len(EnsuredColumns)
       IN  mig' = [mig EXCEPT
                     !.pending_actions =
                         IF present THEN @
                         ELSE Append(@, [action |-> "add_column", table |-> a.table,
                                         column |-> a.column,
                                         column_type |-> a.column_type,
                                         fill_expression |-> a.fill_expression]),
                     !.columns_cache =
                         IF present THEN cache
                         ELSE [cache EXCEPT ![a.table] = Append(@, a.column)],
                     !.pc = IF last THEN "apply" ELSE @,
                     !.i = IF last THEN 0 ELSE @ + 1]
    /\ UNCHANGED <<mail, backups, now, tz, db, wdb, writer, pc, op, loc, ret>>

\* MigrationManager.apply up to the end of _backup_database
Apply(copy_ok) ==
    /\ mig.pc = "apply"
    /\ IF mig.pending_actions = <<>>
       THEN /\ mig' = [mig EXCEPT !.pc = "settings"]
            /\ UNCHANGED backups
       ELSE /\ mig' = [mig EXCEPT !.pc = AfterBackup(copy_ok), !.i = 1,
                                  !.failure = IF copy_ok THEN NULL ELSE "backup"]
            /\ backups' = IF copy_ok THEN CopyFile(backups, BackupName(now), db)
                          ELSE backups
    /\ UNCHANGED <<mail, now, tz, db, wdb, writer, pc, op, loc, ret>>

\* ALTER TABLE ... ADD COLUMN: committed at once unless a transaction is
\* open; raises OperationalError when the table has the column
AlterTable ==
    /\ mig.pc = "alter"
    /\ LET a == mig.pending_actions[mig.i]
       IN  IF ColumnPresent(TableInfo(wdb, a.table), a.column)
           THEN /\ mig' = [mig EXCEPT !.pc = "raised", !.failure = "alter"]
                /\ wdb' = db
                /\ writer' = NoProc
                /\ UNCHANGED db
           ELSE /\ wdb' = AlterTableAddColumn(wdb, a.table, a.column)
                /\ db' = IF writer = NoProc THEN wdb' ELSE db
                /\ mig' = IF a.fill_expression # NULL
                          THEN [mig EXCEPT !.pc = "fill"]
                          ELSE NextPending(mig)
                /\ UNCHANGED writer
    /\ UNCHANGED <<mail, backups, now, tz, pc, op, loc, ret>>

\* UPDATE ... SET column = fill_expression WHERE column IS NULL: opens the
\* transaction
Fill ==
    /\ mig.pc = "fill"
    /\ LET a == mig.pending_actions[mig.i]
       IN  wdb' = UpdateFill(wdb, a.table, a.column, EvalFill(a.fill_expression, now))
    /\ writer' = Main
    /\ mig' = NextPending(mig)
    /\ UNCHANGED <<mail, backups, now, tz, db, pc, op, loc, ret>>

\* self.conn.commit() of apply
ApplyCommit ==
    /\ mig.pc = "apply_commit"
    /\ db' = wdb
    /\ writer' = NoProc
    /\ mig' = [mig EXCEPT !.pc = "settings"]
    /\ UNCHANGED <<mail, backups, now, tz, wdb, pc, op, loc, ret>>

\* INSERT OR IGNORE INTO system_settings for each default; conn.commit()
Settings ==
    /\ mig.pc = "settings"
    /\ db' = [db EXCEPT !.settings = InsertDefaults(@, now)]
    /\ wdb' = db'
    /\ mig' = [mig EXCEPT !.pc = "seed"]
    /\ UNCHANGED <<mail, backups, now, tz, writer, pc, op, loc, ret>>

\* if user_count == 0: INSERT INTO users the administrator; conn.commit()
Seed ==
    /\ mig.pc = "seed"
    /\ db' = IF Len(db.users) = 0
             THEN [db EXCEPT !.users = <<[AdminRow EXCEPT !.created_at = ToString(now),
                                                          !.updated_at = ToString(now)]>>]
             ELSE db
    /\ wdb' = db'
    /\ mig' = [mig EXCEPT !.pc = "cleanup"]
    /\ UNCHANGED <<mail, backups, now, tz, writer, pc, op, loc, ret>>

\* DELETE FROM users WHERE username = 'user' AND role = 'worker';
\* conn.commit(); conn.close()
Cleanup ==
    /\ mig.pc = "cleanup"
    /\ db' = [db EXCEPT !.users =
                 SelectSeq(@, LAMBDA r : ~(r.username = "user" /\ r.role = "worker"))]
    /\ wdb' = db'
    /\ mig' = [mig EXCEPT !.pc = "off", !.completed = @ + 1]
    /\ UNCHANGED <<mail, backups, now, tz, writer, pc, op, loc, ret>>

\* The data files init_db may find: none yet, the file of an earlier
\* version of the application, or the file of this version
NoSettings == <<>>
LegacyUser(id, username, role, name) ==
    [id |-> id, username |-> username,
     password |-> generate_password_hash(username, AdminSalt),
     role |-> role, name |-> name,
     email |-> "a@x", created_at |-> ToString(0), updated_at |-> ToString(0)]
LegacyUsers ==
    { <<>>,
      <<LegacyUser(1, "admin", "admin", "Administrator")>>,
      <<LegacyUser(1, "admin", "admin", "Administrator"),
        LegacyUser(2, "user", "worker", "Worker")>>,
      <<LegacyUser(1, "bob", "worker", "Bob")>>,
      <<LegacyUser(1, "user", "worker", "Worker")>> }
Restrict(rows, columns) ==
    [i \in 1..Len(rows) |-> [c \in Range(columns) |-> rows[i][c]]]
FreshStore ==
    [tasks |-> <<>>, history |-> <<>>, comments |-> <<>>, users |-> <<>>,
     schema |-> [t \in {} |-> <<>>], settings |-> NoSettings]
LegacyStores ==
    {FreshStore} \cup
    { [tasks |-> <<>>, history |-> <<>>, comments |-> <<>>,
       users |-> Restrict(users, columns),
       schema |-> [t \in tables |-> IF t = "users" THEN columns ELSE DDL[t]],
       settings |-> IF "system_settings" \in tables
                    THEN <<SettingRow("password_min_length", "8", 0)>>
                    ELSE NoSettings]  :
        users \in LegacyUsers,
        columns \in {UsersColumnsV1, UsersColumnsV2, DDL.users},
        tables \in {Range(Tables), Range(Tables) \ {"system_settings"}} }

InitMigrate ==
    /\ now = 0
    /\ tz = 0
    /\ db \in LegacyStores
    /\ wdb = db
    /\ writer = NoProc
    /\ pc = [p \in Procs |-> "idle"]
    /\ op = [p \in Procs |-> NoOp]
    /\ loc = [p \in Procs |-> NoLoc]
    /\ ret = [p \in Procs |-> NoRet]
    /\ mig = MigOff
    /\ backups = {}
    /\ mail = MailOff

NextMigrate ==
    \/ StartInit
    \/ EnsureTable
    \/ EnsureColumn
    \/ \E copy_ok \in BOOLEAN : Apply(copy_ok)
    \/ AlterTable
    \/ Fill
    \/ ApplyCommit
    \/ Settings
    \/ Seed
    \/ Cleanup
    \/ Tick

SpecMigrate == InitMigrate /\ [][NextMigrate]_vars

----------------------------------------------------------------------------
(* Task numbers *)

CreateDone(p) == pc[p] = "done" /\ op[p].name = "add_task"

\* the tasks up to row i whose number carries the same date as row i's
SameDateUpTo(d, i) ==
    {j \in 1..i : d.tasks[j].number.date = d.tasks[i].number.date}

\* C1: under serialized creation the tasks numbered for one date carry the
\* sequence components 0001, 0002, ... in creation order, without gap or
\* duplicate, and no create fails with a number collision, at whatever time
\* of day the creates run.
C1_SerialNumbering ==
    /\ \A i \in 1..Len(db.tasks) :
          db.tasks[i].number.seq = Pad4(Cardinality(SameDateUpTo(db, i)))
    /\ CreateDone(Main) => ret[Main].kind # "IntegrityError"

\* C2: a create that loses the race for a number does not fail: the
\* collision is retried inside the call, so no create call ends by raising
\* the constraint violation to its caller.
C2_LoserRetries ==
    \A p \in Procs : CreateDone(p) => ret[p].kind # "IntegrityError"

NumbersUnique(d) ==
    \A i, j \in 1..Len(d.tasks) : d.tasks[i].number = d.tasks[j].number => i = j

CreatedEntries(d, task_id) ==
    {i \in 1..Len(d.history) :
        d.history[i].task_id = task_id /\ d.history[i].action = ActionCreated}

EachTaskCreatedOnce(d) ==
    /\ \A id \in 1..Len(d.tasks) : Cardinality(CreatedEntries(d, id)) = 1
    /\ \A i \in 1..Len(d.history) :
          d.history[i].action = ActionCreated => HasTask(d, d.history[i].task_id)

C3_Stored ==
    /\ NumbersUnique(db) /\ NumbersUnique(wdb)
    /\ EachTaskCreatedOnce(db)

C3_LoserStep ==
    \A p \in Procs :
        (pc[p] = "ins_task" /\ ret'[p].kind = "IntegrityError")
            => db' = db /\ wdb' = wdb /\ writer' = writer

\* C3: under any interleaving of creates no two stored tasks have the same
\* number, and the create that loses a collision leaves neither a task row
\* nor a history entry (every stored "created" entry belongs to exactly one
\* stored task, and the losing statement changes nothing).
C3_UniqueNumbers == []C3_Stored /\ [][C3_LoserStep]_vars

C3_Witness ==
    \E p \in Procs :
        /\ CreateDone(p) /\ ret[p].kind = "IntegrityError"
        /\ Len(db.tasks) = 1 /\ Len(db.history) = 1
        /\ writer = NoProc

----------------------------------------------------------------------------
(* update_task *)

\* allowed_fields of api_update_task: the fields a request may update
UpdatableFields == {"progress", "priority", "urgency", "assigned_to", "status"}

UpdateCall(p) == op[p].name = "update_task" /\ pc[p] # "idle"

\* every item of the map names a field and gives it its current value
AllCurrent(d, call) ==
    /\ HasTask(d, call.task_id)
    /\ \A i \in 1..Len(call.updates) :
          /\ call.updates[i][1] \in TaskKeys
          /\ TaskRow(d, call.task_id)[call.updates[i][1]] = call.updates[i][2]

\* C4: an update whose map is empty, or gives every field its current
\* value, writes nothing: no history entry, updated_at and every other
\* stored field unchanged; it returns the task as it is.
C4_NoOpUpdate ==
    [][\A p \in Procs :
          (UpdateCall(p) /\ AllCurrent(db, op[p]))
              => /\ db' = db /\ wdb' = wdb
                 /\ ((pc[p] = "get_comm" /\ pc'[p] = "done") =>
                        /\ ret'[p].kind = "task"
                        /\ ret'[p].task = TaskRow(db, op[p].task_id)
                        /\ ret'[p].history = SelectHistory(db, op[p].task_id))]_vars

C4_Witness ==
    /\ pc[Main] = "done" /\ op[Main].name = "update_task"
    /\ op[Main].updates = << <<"status", "new">> >>
    /\ ret[Main].kind = "task"
    /\ Len(ret[Main].history) = 1
    /\ ret[Main].task.updated_at < now

\* the step that commits the transaction of an update call
UpdateCommits(p) ==
    pc[p] = "commit" /\ pc'[p] = "get_row" /\ op[p].name = "update_task"

\* the history of a task grew by exactly one entry, the last one
OneMoreEntry(before, after) ==
    /\ Len(after) = Len(before) + 1
    /\ SubSeq(after, 1, Len(before)) = before

\* C5: update(id, {f: new}) of an updatable field f whose value is old # new
\* adds exactly one history entry, whose changes map is {f: {from: old,
\* to: new}}, and the stored field becomes new; the task the call returns
\* (get_task) carries new.
C5_SingleField ==
    [][\A p \in Procs :
          (/\ op[p].name = "update_task"
           /\ Len(op[p].updates) = 1
           /\ op[p].updates[1][1] \in UpdatableFields)
          => LET id == op[p].task_id
                 f == op[p].updates[1][1]
                 new == op[p].updates[1][2]
                 before == SelectHistory(db, id)
                 after == SelectHistory(db', id)
             IN  /\ UpdateCommits(p) =>
                        /\ TaskRow(db, id)[f] # new
                        /\ OneMoreEntry(before, after)
                        /\ DOMAIN after[Len(after)].changes = {f}
                        /\ after[Len(after)].changes[f] =
                               [from |-> TaskRow(db, id)[f], to |-> new]
                        /\ TaskRow(db', id)[f] = new
                 /\ (pc[p] = "get_comm" /\ pc'[p] = "done") =>
                        /\ ret'[p].kind = "task"
                        /\ ret'[p].task[f] = new]_vars

C5_Witness ==
    /\ pc[Main] = "done" /\ op[Main].name = "update_task"
    /\ op[Main].updates = << <<"progress", 50>> >>
    /\ ret[Main].kind = "task"
    /\ ret[Main].task.progress = 50
    /\ Len(ret[Main].history) = 2
    /\ ret[Main].history[2].changes = [progress |-> [from |-> 0, to |-> 50]]

\* the proposed fields that are columns of the task and differ from the row
DiffKeys(row, updates) ==
    {k \in TaskKeys :
        \E i \in 1..Len(updates) : updates[i][1] = k /\ row[k] # updates[i][2]}

Proposed(updates, k) ==
    updates[CHOOSE i \in 1..Len(updates) : updates[i][1] = k][2]

\* C6: an update that proposes several fields writes one history entry,
\* whose changes map has as keys exactly the proposed fields that are
\* columns of the task and differ from the current value, each with its
\* old and new value; those fields are written, no other field is, and
\* updated_at is set to the time of the UPDATE statement.
C6_OneEntryPerCall ==
    [][\A p \in Procs :
          op[p].name = "update_task" =>
             LET id == op[p].task_id
                 row == TaskRow(db, id)
                 keys == DiffKeys(row, op[p].updates)
                 before == SelectHistory(db, id)
                 after == SelectHistory(db', id)
                 last == after[Len(after)]
             IN  /\ UpdateCommits(p) =>
                        /\ keys # {}
                        /\ Len(db'.history) = Len(db.history) + 1
                        /\ OneMoreEntry(before, after)
                        /\ last.action = ActionUpdated
                        /\ last.user = op[p].user
                        /\ DOMAIN last.changes = keys
                        /\ \A k \in keys :
                              last.changes[k] =
                                  [from |-> row[k], to |-> Proposed(op[p].updates, k)]
                        /\ \A k \in keys \ {"updated_at"} :
                              TaskRow(db', id)[k] = Proposed(op[p].updates, k)
                        /\ \A k \in TaskKeys \ (keys \cup {"updated_at"}) :
                              TaskRow(db', id)[k] = row[k]
                        /\ \A j \in 1..Len(db.tasks) :
                              j # id => db'.tasks[j] = db.tasks[j]
                 /\ (pc[p] = "upd_write" /\ pc'[p] = "upd_hist") =>
                        TaskRow(wdb', id).updated_at = now]_vars

C6_Witness ==
    /\ pc[Main] = "done" /\ op[Main].name = "update_task"
    /\ Len(op[Main].updates) = 4
    /\ ret[Main].kind = "task"
    /\ Len(ret[Main].history) = 2
    /\ DOMAIN ret[Main].history[2].changes = {"status", "priority"}
    /\ ret[Main].task.updated_at > ret[Main].task.created_at

\* C7: whatever map update is given, a task's number, created_by and
\* created_at stay the values assigned at its creation.
C7_ImmutableFields ==
    [][\A id \in 1..Len(db.tasks) :
          /\ TaskRow(db', id).number = TaskRow(db, id).number
          /\ TaskRow(db', id).created_by = TaskRow(db, id).created_by
          /\ TaskRow(db', id).created_at = TaskRow(db, id).created_at]_vars

----------------------------------------------------------------------------
(* Readers *)

RECURSIVE LastTo(_, _, _)
\* the value the history gives a field: the `to` of the last entry that
\* changes it, or the value at creation
LastTo(history, key, initial) ==
    IF history = <<>> THEN initial
    ELSE LET h == history[Len(history)]
         IN  IF key \in DOMAIN h.changes THEN h.changes[key].to
             ELSE LastTo(SubSeq(history, 1, Len(history) - 1), key, initial)

\* C9: the task row and its history entry become visible together: the
\* task a reader gets never holds a history entry without the field change
\* it records, nor a field change without its history entry.
C9_VisibleTogether ==
    \A p \in Procs :
        (pc[p] = "done" /\ ret[p].kind = "task") =>
            /\ ret[p].task.status = LastTo(ret[p].history, "status", StatusNew)
            /\ ret[p].task.progress = LastTo(ret[p].history, "progress", 0)

\* C10: a successful create returns a task with a fresh id, status "new",
\* progress 0, no comments, and a history of exactly one entry, the
\* "created" entry of created_by with an empty changes map.
C10_CreateResult ==
    (CreateDone(Main) /\ ret[Main].kind = "task") =>
        LET t == ret[Main] IN
        /\ \A j \in 1..Len(db.tasks) : db.tasks[j].id = t.task.id => j = t.task.id
        /\ t.task.status = StatusNew
        /\ t.task.progress = 0
        /\ t.comments = <<>>
        /\ Len(t.history) = 1
        /\ t.history[1].action = ActionCreated
        /\ t.history[1].user = op[Main].task_data.created_by
        /\ DOMAIN t.history[1].changes = {}

----------------------------------------------------------------------------
(* Ids that match no task; add_comment *)

NotFoundCall(p) ==
    /\ op[p].name \in {"update_task", "get_task"}
    /\ ~HasTask(db, op[p].task_id)

\* C11: update with an id that matches no task returns the not-found signal
\* (None) and no step of the call changes a task, a history entry or a
\* comment, committed or pending; get with such an id returns None as well.
C11_NotFound ==
    [][\A p \in Procs :
          NotFoundCall(p) =>
              /\ db' = db /\ wdb' = wdb /\ writer' = writer
              /\ pc'[p] = "done" => ret'[p] = RetNone]_vars

C11_Witness ==
    /\ pc[Main] = "done" /\ op[Main].name = "update_task"
    /\ op[Main].updates = << <<"status", "done">> >>
    /\ op[Main].task_id = 2
    /\ ret[Main] = RetNone
    /\ Len(db.tasks) = 1 /\ Len(db.history) = 1

\* C12: add_comment with an id that matches no task appends nothing, so
\* every stored comment and every stored history entry carries the id of a
\* stored task.
C12_NoDangling ==
    /\ \A i \in 1..Len(db.comments) : HasTask(db, db.comments[i].task_id)
    /\ \A i \in 1..Len(db.history) : HasTask(db, db.history[i].task_id)

\* the step that commits the transaction of an add_comment call
CommentCommits(p) ==
    pc[p] = "commit" /\ pc'[p] = "get_row" /\ op[p].name = "add_comment"

\* C13: add_comment on an existing task adds exactly one comment, holding
\* the full text and the acting user, and exactly one history entry, whose
\* action is "comment added"; no field of any task changes, and the task
\* the call returns shows both.
C13_CommentAdded ==
    [][\A p \in Procs :
          (op[p].name = "add_comment" /\ HasTask(db, op[p].task_id)) =>
             LET id == op[p].task_id
                 hbefore == SelectHistory(db, id)
                 hafter == SelectHistory(db', id)
                 cbefore == SelectComments(db, id)
                 cafter == SelectComments(db', id)
             IN  /\ CommentCommits(p) =>
                        /\ OneMoreEntry(cbefore, cafter)
                        /\ Len(db'.comments) = Len(db.comments) + 1
                        /\ cafter[Len(cafter)].text = op[p].comment
                        /\ cafter[Len(cafter)].user = op[p].user
                        /\ OneMoreEntry(hbefore, hafter)
                        /\ Len(db'.history) = Len(db.history) + 1
                        /\ hafter[Len(hafter)].action = ActionComment
                        /\ hafter[Len(hafter)].user = op[p].user
                 /\ db'.tasks = db.tasks /\ wdb'.tasks = wdb.tasks
                 /\ (pc[p] = "get_comm" /\ pc'[p] = "done") =>
                        /\ ret'[p].kind = "task"
                        /\ ret'[p].task = TaskRow(db, id)
                        /\ ret'[p].history = SelectHistory(db, id)
                        /\ ret'[p].comments = SelectComments(db, id)]_vars

C13_Witness ==
    /\ pc[Main] = "done" /\ op[Main].name = "add_comment"
    /\ ret[Main].kind = "task"
    /\ Len(ret[Main].comments) = 1
    /\ ret[Main].comments[1].text = op[Main].comment
    /\ Len(ret[Main].history) = 2
    /\ ret[Main].history[2].action = ActionComment
    /\ ret[Main].task.updated_at = ret[Main].task.created_at
    /\ now > ret[Main].task.created_at

----------------------------------------------------------------------------
(* Lists of tasks, and the history and comments of one task *)

ListDone(p) == pc[p] = "done" /\ op[p].name = "get_tasks_filtered"

\* the rows list(include_closed) has to return
Listed(d, include_closed) ==
    {i \in 1..Len(d.tasks) :
        include_closed \/ d.tasks[i].status \notin {"done", "cancelled"}}

\* C15: list(include_closed=false) returns exactly the tasks whose status
\* is neither "done" nor "cancelled", list(include_closed=true) returns
\* every stored task; each task appears exactly once.
C15_ListFilter ==
    ListDone(Main) =>
        LET tasks == ret[Main].tasks
            expected == Listed(db, op[Main].include_closed)
        IN  /\ {tasks[i] : i \in 1..Len(tasks)} = {db.tasks[i] : i \in expected}
            /\ Len(tasks) = Cardinality(expected)

C15_Witness ==
    /\ ListDone(Main) /\ ~op[Main].include_closed
    /\ Len(db.tasks) = 1 /\ db.tasks[1].status = "done"
    /\ ret[Main].tasks = <<>>

\* C16: list returns the tasks newest-created-first: a task created after
\* another one (it has the larger id) comes before it, also when both were
\* created within the same second.
C16_NewestFirst ==
    ListDone(Main) =>
        LET tasks == ret[Main].tasks
        IN  \A i, j \in 1..Len(tasks) : i < j => tasks[i].id > tasks[j].id

GetDone(p) == pc[p] = "done" /\ ret[p].kind = "task"

\* the ids of the rows of a table that carry the task's id
IdsOf(rows, task_id) ==
    {rows[i].id : i \in {j \in 1..Len(rows) : rows[j].task_id = task_id}}

\* the rows are in the order in which they were appended: inserts number
\* the rows 1, 2, ... and stamp them with a clock that never goes back
AppendOrder(rows) ==
    \A i, j \in 1..Len(rows) :
        i < j => rows[i].id < rows[j].id /\ rows[i].timestamp <= rows[j].timestamp

----------------------------------------------------------------------------
(* The request handlers of src/app.py *)

\* A submitted value for progress: numeric text holding n, or other text
Num(n) == [num |-> TRUE, n |-> n]
NotNum == [num |-> FALSE, n |-> 0]

\* request.form and the JSON payload, as item sequences
Has(items, k) == \E i \in 1..Len(items) : items[i][1] = k
Get(items, k) == items[CHOOSE i \in 1..Len(items) : items[i][1] = k][2]
KeysIn(order, items) == SelectSeq(order, LAMBDA k : Has(items, k))

FormOrder == <<"progress", "status", "priority", "urgency", "assigned_to">>
PatchOrder == <<"progress", "priority", "urgency", "assigned_to", "status">>

\* update_task: updates['progress'] = int(request.form['progress']), the
\* other fields as submitted
FormRaises(form) == Has(form, "progress") /\ ~Get(form, "progress").num
FormUpdates(form) ==
    LET ks == KeysIn(FormOrder, form)
    IN  [i \in 1..Len(ks) |->
            <<ks[i], IF ks[i] = "progress" THEN Get(form, ks[i]).n ELSE Get(form, ks[i])>>]

\* api_update_task
PatchUnknown(payload) ==
    \E i \in 1..Len(payload) : payload[i][1] \notin UpdatableFields
Unassigned == {NULL, "", "null"}
\* a handler that validates progress only
PatchErrorsProgressOnly(d, payload) ==
    {k \in {"progress"} :
        /\ Has(payload, k)
        /\ LET v == Get(payload, k)
           IN  ~v.num \/ v.n < 0 \/ v.n > 100}

PatchErrors(d, payload) ==
    {k \in UpdatableFields :
        /\ Has(payload, k)
        /\ LET v == Get(payload, k)
           IN  CASE k = "progress" -> ~v.num \/ v.n < 0 \/ v.n > 100
                 [] k = "priority" -> v \notin PRIORITY_LABELS
                 [] k = "urgency" -> v \notin URGENCY_LABELS
                 [] k = "status" -> v \notin STATUS_LABELS
                 [] k = "assigned_to" ->
                        v \notin Unassigned /\ ~user_name_exists(d, v)}
PatchUpdates(payload) ==
    LET ks == KeysIn(PatchOrder, payload)
    IN  [i \in 1..Len(ks) |->
            <<ks[i],
              CASE ks[i] = "progress" -> Get(payload, ks[i]).n
                [] ks[i] = "assigned_to" ->
                      IF Get(payload, ks[i]) \in Unassigned THEN NULL
                      ELSE Get(payload, ks[i])
                [] OTHER -> Get(payload, ks[i])>>]

Forms ==
    { << <<"progress", Num(150)>> >>,
      << <<"progress", Num(50)>>, <<"status", "done">> >>,
      << <<"progress", NotNum>> >>,
      << <<"status", "bogus">> >>,
      << <<"assigned_to", "">> >>,
      << <<"assigned_to", "nobody">> >> }

Payloads ==
    { <<>>,
      << <<"progress", Num(101)>> >>,
      << <<"progress", Num(100)>> >>,
      << <<"status", "done">>, <<"progress", Num(0 - 1)>> >>,
      << <<"colour", "red">>, <<"status", "done">> >>,
      << <<"assigned_to", "Administrator">> >>,
      << <<"assigned_to", "nobody">> >>,
      << <<"priority", "bogus">> >> }

Anonymous == "Anonymous"
CreateForms ==
    [title : {"t"}, description : {"d"}, priority : {"high", "bogus"},
     urgency : {"low"}, creator_name : {"ann", NULL}]

Ret400 == [kind |-> "400"]
Ret500 == [kind |-> "500"]

\* the handler answers without calling the store
Reject(p, handler, value) ==
    /\ Idle(p)
    /\ op' = [op EXCEPT ![p] = [name |-> handler]]
    /\ Finish(p, value)
    /\ UNCHANGED <<mail, mig, backups, now, tz, db, wdb, writer>>

\* POST /create-task
HCreate(p, form) ==
    BeginCreate(p, [title |-> form.title, description |-> form.description,
                    priority |-> form.priority, urgency |-> form.urgency,
                    created_by |-> IF form.creator_name = NULL THEN Anonymous
                                   ELSE form.creator_name,
                    assigned_to |-> NULL])

\* POST /task/<id>/update
HFormUpdate(p, task_id, form, name) ==
    IF FormRaises(form)
    THEN Reject(p, "update_task_form", Ret500)
    ELSE BeginUpdate(p, task_id, FormUpdates(form), name)

\* PATCH /api/tasks/<id>
HPatch(p, task_id, payload, name) ==
    IF \/ PatchUnknown(payload)
       \/ PatchErrors(db, payload) # {}
       \/ PatchUpdates(payload) = <<>>
    THEN Reject(p, "api_update_task", Ret400)
    ELSE BeginUpdate(p, task_id, PatchUpdates(payload), name)

\* POST /task/<id>/comment
HComment(p, task_id, comment, name) ==
    BeginComment(p, task_id, comment, name)

NextHandlers ==
    \/ \E form \in CreateForms : HCreate(Main, form)
    \/ \E id \in TaskIds, form \in Forms, name \in Actors :
          HFormUpdate(Main, id, form, name)
    \/ \E id \in TaskIds, payload \in Payloads, name \in Actors :
          HPatch(Main, id, payload, name)
    \/ \E id \in TaskIds, comment \in CommentForms, name \in Actors :
          HComment(Main, id, comment, name)
    \/ Step(Main)

\* the handlers validate and pass on what they are sent; none reads the clock
SpecHandlers == InitUtc /\ [][NextHandlers]_vars

\* C8: in every state reached through the request handlers every stored
\* task has its progress in 0..100.
C8_ProgressInRange ==
    \A i \in 1..Len(db.tasks) :
        db.tasks[i].progress >= 0 /\ db.tasks[i].progress <= 100

\* the `changes` of the last stored history entry, and the last stored comment
LastChanges(d) == JsonLoads(d.history[Len(d.history)].changes)
LastComment(d) == d.comments[Len(d.comments)]

\* C14: the preview add_comment stores in its history entry is the whole
\* text when the text has at most 50 characters, and the first 50 characters
\* followed by "..." when it has more; the stored comment keeps the full
\* text.
C14_Preview ==
    [][\A p \in Procs :
          CommentCommits(p) =>
              LET text == op[p].comment
                  preview == LastChanges(db').comment
              IN  /\ LastComment(db').text = text
                  /\ DOMAIN LastChanges(db') = {"comment"}
                  /\ Len(text) <= PreviewLen => preview = text
                  /\ Len(text) > PreviewLen =>
                        /\ Len(preview) = PreviewLen + 3
                        /\ \A i \in 1..PreviewLen : preview[i] = text[i]
                        /\ \A i \in 1..3 : preview[PreviewLen + i] = "."]_vars

C14_Witness ==
    /\ pc[Main] = "done" /\ op[Main].name = "add_comment"
    /\ Len(op[Main].comment) = PreviewLen + 1
    /\ ret[Main].kind = "task"
    /\ Len(ret[Main].comments[1].text) = PreviewLen + 1
    /\ Len(ret[Main].history[2].changes.comment) = PreviewLen + 3

----------------------------------------------------------------------------
(* The schema migrator *)

\* init_db runs the ensure_table / ensure_column / apply sequence
MigratorRuns ==
    mig.pc \in {"ensure_table", "ensure_column", "apply", "alter", "fill",
                "apply_commit"}

\* C18: when the migrator runs on a store that an earlier run of init_db
\* has brought up to date, it queues no change, writes no backup file,
\* changes neither the schema nor a row, and raises no error.
C18_SecondRunNoOp ==
    [][(mig.completed >= 1 /\ MigratorRuns) =>
          /\ db' = db /\ wdb' = wdb
          /\ backups' = backups
          /\ mig'.pending_actions = <<>>
          /\ mig'.failure = NULL /\ mig'.pc # "raised"]_vars

C18_Witness ==
    /\ mig.runs = 2 /\ mig.completed = 1
    /\ mig.pc = "settings"
    /\ Cardinality(backups) = 1
    /\ Len(db.users) >= 1

\* the queued columns
Queued == Range(mig.pending_actions)

\* C19: when columns are missing, apply writes exactly one backup file, and
\* writes it before it adds the first column: the file holds the schema and
\* the rows as they were.  When apply has committed, the table has every
\* queued column, every row that was there is still there with its old
\* values, and holds in each new column that has a fill expression the value
\* of that expression, not NULL.
C19_BackupThenFill ==
    [][/\ (mig.pc = "apply" /\ mig'.pc = "alter") =>
             /\ db' = db
             /\ \E f \in backups' :
                   /\ f \notin backups
                   /\ backups' = backups \cup {f}
                   /\ f.content = db
                   /\ \A a \in Queued :
                         a.column \notin Range(f.content.schema[a.table])
       /\ mig.pc \in {"alter", "fill", "apply_commit"} => backups' = backups
       /\ (mig.pc = "apply_commit" /\ mig'.pc = "settings") =>
             /\ Cardinality(backups) = 1
             /\ LET before == (CHOOSE f \in backups : TRUE).content
                IN  /\ Len(db'.users) = Len(before.users)
                    /\ Restrict(db'.users, before.schema.users) = before.users
                    /\ \A a \in Queued :
                          /\ a.column \in Range(db'.schema[a.table])
                          /\ a.fill_expression # NULL =>
                                \A i \in 1..Len(db'.users) :
                                    /\ db'.users[i][a.column] # NULL
                                    /\ db'.users[i][a.column] \in
                                           {ToString(t) : t \in 0..now}]_vars

C19_Witness ==
    /\ mig.pc = "settings"
    /\ Len(mig.pending_actions) = 2
    /\ Cardinality(backups) = 1
    /\ \A f \in backups :
          /\ f.content.schema.users = UsersColumnsV1
          /\ Len(f.content.users) = 2
          /\ f.name.timestamp < now
    /\ Len(db.users) = 2
    /\ db.users[2].email = NULL
    /\ db.users[2].updated_at = ToString(now)

\* C20: when the copy of the backup fails, apply raises before it executes
\* a queued column addition or backfill: the failing step and every later
\* step of that run leave the schema and the rows as they were.
C20_AbortOnBackupFailure ==
    [][mig'.failure = "backup" =>
          /\ mig'.pc = "raised"
          /\ db' = db /\ wdb' = wdb /\ writer' = writer
          /\ backups' = backups]_vars

C20_Witness ==
    /\ mig.failure = "backup" /\ mig.pc = "raised"
    /\ Len(mig.pending_actions) = 2
    /\ db.schema.users = UsersColumnsV1
    /\ Len(db.users) = 2
    /\ backups = {}

----------------------------------------------------------------------------
(* The order of backup and schema change *)

\* the data file held rows before this step, so init_db did not create it
ExistingStore == Len(db.users) > 0

\* the step adds a table or a column to the persisted schema
SchemaMutated == db'.schema # db.schema

\* C21: on a store that exists already, the migrator adds a table or a
\* column to the persisted schema only when a backup file has been written:
\* no step changes the schema while the backups directory is still empty.
C21_BackupBeforeMutation ==
    [][(ExistingStore /\ MigratorRuns /\ SchemaMutated) => backups # {}]_vars

----------------------------------------------------------------------------
(* A process that dies in init_db *)

\* the process is killed: sqlite rolls the open transaction back when the
\* file is opened next, what was committed stays
CrashInit ==
    /\ mig.pc \notin {"off", "raised"}
    /\ wdb' = db
    /\ writer' = NoProc
    /\ mig' = [mig EXCEPT !.pc = "off", !.failure = "crash"]
    /\ UNCHANGED <<mail, backups, now, tz, db, pc, op, loc, ret>>

NextMigrateCrash == NextMigrate \/ CrashInit

SpecMigrateCrash == InitMigrate /\ [][NextMigrateCrash]_vars

\* apply is past its backup and executes the queued statements
ApplyExecutes == mig.pc \in {"alter", "fill", "apply_commit"}

\* C22: the queued additions and backfills of apply take effect as one
\* unit.  When apply ends without its commit, by a failing statement or by
\* the death of the process, the persisted users table has none of the
\* queued columns; when apply commits, it has every queued column and no
\* NULL in a column queued with a fill expression.
C22_ApplyAtomic ==
    [][/\ (ApplyExecutes /\ mig'.pc \in {"off", "raised"}) =>
             \A a \in Queued : a.column \notin Range(db'.schema[a.table])
       /\ (mig.pc = "apply_commit" /\ mig'.pc = "settings") =>
             \A a \in Queued :
                 /\ a.column \in Range(db'.schema[a.table])
                 /\ a.fill_expression # NULL =>
                       \A i \in 1..Len(db'.users) :
                           db'.users[i][a.column] # NULL]_vars

----------------------------------------------------------------------------
(* Additive migration *)

IsPrefix(s, t) == Len(s) <= Len(t) /\ SubSeq(t, 1, Len(s)) = s

\* every table of d is a table of e with the same columns in front, and
\* every row of d is a row of e that differs at most in a column of added
\* where d holds NULL
Extends(d, e, added) ==
    /\ \A t \in DOMAIN d.schema :
          t \in DOMAIN e.schema /\ IsPrefix(d.schema[t], e.schema[t])
    /\ HasTable(d, "users") =>
          /\ Len(e.users) = Len(d.users)
          /\ \A i \in 1..Len(d.users) :
                \A c \in Range(d.schema.users) :
                    e.users[i][c] # d.users[i][c] =>
                        c \in added /\ d.users[i][c] = NULL
    /\ e.tasks = d.tasks /\ e.history = d.history /\ e.comments = d.comments
    /\ e.settings = d.settings

\* C23: the migrator only adds.  No step of ensure_table, ensure_column or
\* apply removes or renames a table or a column, removes a row or changes a
\* value a row had, in the persisted store or in the open transaction;
\* ensure_table on a table that exists changes nothing; the backfill
\* changes only the column just added and only in rows that hold NULL there.
C23_Additive ==
    [][MigratorRuns =>
          /\ Extends(db, db', {a.column : a \in Queued})
          /\ (mig.pc = "ensure_table" /\ HasTable(db, Tables[mig.i])) =>
                db' = db /\ wdb' = wdb
          /\ mig.pc = "ensure_column" => db' = db /\ wdb' = wdb
          /\ (mig.pc = "alter" /\ mig'.pc # "off") => Extends(wdb, wdb', {})
          /\ (mig.pc = "fill" /\ mig'.pc # "off") =>
                /\ wdb'.schema = wdb.schema
                /\ Extends(wdb, wdb', {mig.pending_actions[mig.i].column})]_vars

\* apply has committed two added columns and a backfill on a table of two
\* rows, which kept what they held
C23_Witness ==
    /\ mig.pc = "settings"
    /\ Len(mig.pending_actions) = 2
    /\ db.schema.users = UsersColumnsV1 \o <<"email", "updated_at">>
    /\ \E f \in backups :
          /\ f.content.schema.users = UsersColumnsV1
          /\ Len(f.content.users) = 2
          /\ Restrict(db.users, UsersColumnsV1) = f.content.users
    /\ \A i \in 1..Len(db.users) : db.users[i].updated_at # NULL

----------------------------------------------------------------------------
(* UserManager.verify_user and UserManager.add_user *)

MaxUsers == 3

\* the store init_db leaves when it has migrated the users table of an
\* earlier version: email and updated_at come after created_at
MigratedDb ==
    [EmptyDb EXCEPT
        !.schema.users = UsersColumnsV1 \o <<"email", "updated_at">>,
        !.users = <<[LegacyUser(1, "admin", "admin", "Administrator")
                        EXCEPT !.email = NULL]>>,
        !.settings = InsertDefaults(<<SettingRow("password_min_length", "8", 0)>>, 0)]

UserStores == {EmptyDb, MigratedDb}

\* SELECT * : the values of a row in the order of the table's columns
SelectStar(d, row) == [k \in 1..Len(d.schema.users) |-> row[d.schema.users[k]]]

\* SELECT * FROM users WHERE username = ?; fetchone()
UsersNamed(d, username) == SelectSeq(d.users, LAMBDA r : r.username = username)

\* the dict verify_user builds from user_data[0] .. user_data[5]
UserDict(user_data) ==
    [kind |-> "user", id |-> user_data[1], username |-> user_data[2],
     password |-> user_data[3], role |-> user_data[4], name |-> user_data[5],
     email |-> user_data[6]]

\* UserManager.verify_user
verify_user(d, username, password) ==
    LET found == UsersNamed(d, username)
    IN  IF found # <<>> /\ check_password_hash(found[1].password, password)
        THEN UserDict(SelectStar(d, found[1]))
        ELSE RetNone

\* a table without the UNIQUE constraint on username
UsernameTakenNoConstraint(d, username) == FALSE

\* username TEXT UNIQUE NOT NULL
UsernameTaken(d, username) == UsersNamed(d, username) # <<>>

\* id INTEGER PRIMARY KEY AUTOINCREMENT (no user is deleted here)
NextUserId(d) == Len(d.users) + 1

\* INSERT INTO users (username, password, role, name, email)
NewUserRow(d, call, t) ==
    [id |-> NextUserId(d), username |-> call.username,
     password |-> generate_password_hash(call.password, call.salt),
     role |-> call.role, name |-> call.display_name, email |-> call.email,
     created_at |-> ToString(t), updated_at |-> ToString(t)]
InsertUser(d, row) == [d EXCEPT !.users = Append(@, row)]

\* UserManager.get_user_by_id
get_user_by_id(d, user_id) ==
    LET found == SelectSeq(d.users, LAMBDA r : r.id = user_id)
    IN  IF found = <<>> THEN RetNone
        ELSE [kind |-> "user", id |-> found[1].id, username |-> found[1].username,
              role |-> found[1].role, name |-> found[1].name,
              email |-> found[1].email, created_at |-> found[1].created_at]

Usernames == {"admin", "amy"}
VerifyNames == Usernames \cup {"zed"}
Passwords == {AdminPassword, "pw"}
Salts == {"s1", "s2"}
NewUsers ==
    { [name |-> "add_user", username |-> u, password |-> "pw", salt |-> s,
       role |-> "worker", display_name |-> "Amy", email |-> "amy@x"] :
         u \in Usernames, s \in Salts }

\* a call of the UserManager starts
UserCall(p, call, label) ==
    /\ Idle(p)
    /\ op' = [op EXCEPT ![p] = call]
    /\ loc' = [loc EXCEPT ![p] = NoLoc]
    /\ Goto(p, label)
    /\ UNCHANGED <<mail, mig, backups, now, tz, db, wdb, writer, ret>>

BeginVerify(p, username, password) ==
    /\ username \in VerifyNames
    /\ UserCall(p, [name |-> "verify_user", username |-> username,
                    password |-> password], "vfy_select")

\* SELECT * FROM users WHERE username = ?; conn.close(); the check of the
\* hash and the return
VfySelect(p) ==
    /\ pc[p] = "vfy_select"
    /\ Finish(p, verify_user(db, op[p].username, op[p].password))
    /\ UNCHANGED <<mail, mig, backups, now, tz, db, wdb, writer, op>>

\* the users in the table and the add_user calls that have not inserted yet
UserBudget ==
    Len(wdb.users) + Cardinality({p \in Procs : pc[p] = "usr_insert"}) < MaxUsers

BeginAddUser(p, call) ==
    /\ UserBudget
    /\ UserCall(p, call, "usr_insert")

\* INSERT INTO users: raises IntegrityError when the username is taken,
\* add_user closes the connection and returns None
UsrInsert(p) ==
    /\ pc[p] = "usr_insert"
    /\ writer = NoProc
    /\ IF UsernameTaken(wdb, op[p].username)
       THEN /\ Finish(p, RetNone)
            /\ UNCHANGED <<wdb, writer>>
       ELSE /\ wdb' = InsertUser(wdb, NewUserRow(wdb, op[p], now))
            /\ writer' = p
            /\ loc' = [loc EXCEPT ![p].task_id = NextUserId(wdb)]
            /\ Goto(p, "usr_commit")
            /\ UNCHANGED ret
    /\ UNCHANGED <<mail, mig, backups, now, tz, db, op>>

\* conn.commit(); conn.close()
UsrCommit(p) ==
    /\ pc[p] = "usr_commit"
    /\ db' = wdb
    /\ writer' = NoProc
    /\ Goto(p, "usr_get")
    /\ UNCHANGED <<mail, mig, backups, now, tz, wdb, op, loc, ret>>

\* return self.get_user_by_id(user_id)
UsrGet(p) ==
    /\ pc[p] = "usr_get"
    /\ Finish(p, get_user_by_id(db, loc[p].task_id))
    /\ UNCHANGED <<mail, mig, backups, now, tz, db, wdb, writer, op>>

InitUsers ==
    /\ now = 0
    /\ tz = 0
    /\ db \in UserStores
    /\ wdb = db
    /\ writer = NoProc
    /\ pc = [p \in Procs |-> "idle"]
    /\ op = [p \in Procs |-> NoOp]
    /\ loc = [p \in Procs |-> NoLoc]
    /\ ret = [p \in Procs |-> NoRet]
    /\ mig = MigOff
    /\ backups = {}
    /\ mail = MailOff

NextUsers ==
    \/ \E p \in Procs :
          \/ \E username \in VerifyNames, password \in Passwords :
                BeginVerify(p, username, password)
          \/ \E call \in NewUsers : BeginAddUser(p, call)
          \/ VfySelect(p) \/ UsrInsert(p) \/ UsrCommit(p) \/ UsrGet(p)
          \/ Crash(p)
          \/ Return(p)
    \/ Tick

SpecUsers == InitUsers /\ [][NextUsers]_vars

\* the rows of d a call verify_user(username, password) must accept
Matching(d, username, password) ==
    {i \in 1..Len(d.users) :
        /\ d.users[i].username = username
        /\ d.users[i].password.digest = <<d.users[i].password.salt, password>>}

VerifyReturns(p) == pc[p] = "vfy_select" /\ pc'[p] = "done"

\* C24: verify_user returns the record of the user (id, username, role,
\* name and email as stored) exactly when a user with that username is
\* stored and the password matches the stored hash; in every other case,
\* unknown username or wrong password alike, it returns None; and it
\* changes nothing in the store.
C24_Verify ==
    [][\A p \in Procs : VerifyReturns(p) =>
          LET m == Matching(db, op[p].username, op[p].password)
          IN  /\ m = {} => ret'[p] = RetNone
              /\ m # {} =>
                    \E i \in m :
                        /\ ret'[p].kind = "user"
                        /\ ret'[p].id = db.users[i].id
                        /\ ret'[p].username = db.users[i].username
                        /\ ret'[p].role = db.users[i].role
                        /\ ret'[p].name = db.users[i].name
                        /\ ret'[p].email = db.users[i].email
              /\ db' = db /\ wdb' = wdb /\ writer' = writer]_vars

----------------------------------------------------------------------------
(* Unique usernames *)

UniqueUsernames(d) ==
    \A i, j \in 1..Len(d.users) :
        d.users[i].username = d.users[j].username => i = j

AddUserDone(p) == pc[p] = "done" /\ op[p].name = "add_user"

\* C25: add_user with a username that is stored returns None and changes
\* no row of the users table; a call that returns a user has stored that
\* user; in the committed table and in every transaction no two users have
\* the same username, and of two add_user calls with the same username at
\* most one returns a user.
C25_UniqueUsername ==
    /\ [](UniqueUsernames(db) /\ UniqueUsernames(wdb))
    /\ [](\A p, q \in Procs :
             (p # q /\ AddUserDone(p) /\ AddUserDone(q)
                /\ op[p].username = op[q].username) =>
                 ~(ret[p].kind = "user" /\ ret[q].kind = "user"))
    /\ [][\A p \in Procs :
             /\ (pc[p] = "usr_insert" /\ pc'[p] = "done") =>
                   /\ ret'[p] = RetNone
                   /\ UsernameTaken(db, op[p].username)
                   /\ db' = db /\ wdb' = wdb
             /\ (pc[p] = "usr_get" /\ pc'[p] = "done") =>
                   /\ ret'[p].kind = "user"
                   /\ ret'[p].username = op[p].username
                   /\ \E i \in 1..Len(db.users) :
                         /\ db.users[i].id = ret'[p].id
                         /\ db.users[i].username = op[p].username
                         /\ check_password_hash(db.users[i].password, op[p].password)
                         /\ db.users[i].role = op[p].role
                         /\ db.users[i].name = op[p].display_name]_vars

\* two add_user calls for the same new username overlap: the first has
\* committed the user and not yet returned, the second has got None, and
\* the table holds the user once
C25_Witness ==
    /\ pc["p1"] = "usr_get" /\ AddUserDone("p2")
    /\ op["p1"].username = "amy" /\ op["p2"].username = "amy"
    /\ ret["p2"] = RetNone
    /\ Len(db.users) = 2
    /\ db.users[2].password.salt = op["p1"].salt

----------------------------------------------------------------------------
(* The administrator *)

HasAdmin(d) == \E i \in 1..Len(d.users) : d.users[i].role = "admin"

\* C26: once a run of init_db has completed, whatever the users table held
\* before, the table holds at least one user with the role admin.
C26_AdminExists == mig.completed >= 1 => HasAdmin(db)

----------------------------------------------------------------------------
(* SystemSettingsManager *)

\* an INSERT without its ON CONFLICT clause on a table without the constraint
UpsertAppends(rows, key, value, t) == Append(rows, SettingRow(key, value, t))

\* INSERT ... ON CONFLICT(setting_key) DO UPDATE SET setting_value =
\* excluded.setting_value, updated_at = CURRENT_TIMESTAMP
Upsert(rows, key, value, t) ==
    IF HasSetting(rows, key)
    THEN [i \in 1..Len(rows) |->
             IF rows[i].setting_key = key
             THEN [rows[i] EXCEPT !.setting_value = value, !.updated_at = ToString(t)]
             ELSE rows[i]]
    ELSE Append(rows, SettingRow(key, value, t))

\* SystemSettingsManager.get_setting
get_setting(d, key, default) ==
    LET found == SelectSeq(d.settings, LAMBDA r : r.setting_key = key)
    IN  IF found # <<>> THEN found[1].setting_value ELSE default

RetStr(value) == [kind |-> "str", value |-> value]
RetBool(value) == [kind |-> "bool", value |-> value]

SettingKeys == {"password_min_length", "theme"}
SettingValues == {"6", "8"}
SettingDefaults == {"", "dflt"}

BeginGetSetting(p, key, default) ==
    /\ key \in SettingKeys
    /\ UserCall(p, [name |-> "get_setting", key |-> key, default |-> default],
                "set_get")

\* SELECT setting_value FROM system_settings WHERE setting_key = ?
GetSetting(p) ==
    /\ pc[p] = "set_get"
    /\ Finish(p, RetStr(get_setting(db, op[p].key, op[p].default)))
    /\ UNCHANGED <<mail, mig, backups, now, tz, db, wdb, writer, op>>

BeginSetSetting(p, key, value) ==
    /\ key \in SettingKeys
    /\ UserCall(p, [name |-> "set_setting", key |-> key, value |-> value],
                "set_upsert")

\* the INSERT ... ON CONFLICT statement of set_setting
SetUpsert(p) ==
    /\ pc[p] = "set_upsert"
    /\ writer = NoProc
    /\ wdb' = [wdb EXCEPT !.settings = Upsert(@, op[p].key, op[p].value, now)]
    /\ writer' = p
    /\ Goto(p, "set_commit")
    /\ UNCHANGED <<mail, mig, backups, now, tz, db, op, loc, ret>>

\* conn.commit(); updated = cursor.rowcount > 0; conn.close()
SetCommit(p) ==
    /\ pc[p] = "set_commit"
    /\ db' = wdb
    /\ writer' = NoProc
    /\ Finish(p, RetBool(TRUE))
    /\ UNCHANGED <<mail, mig, backups, now, tz, wdb, op>>

NextSettings ==
    \/ \E p \in Procs :
          \/ \E key \in SettingKeys, default \in SettingDefaults :
                BeginGetSetting(p, key, default)
          \/ \E key \in SettingKeys, value \in SettingValues :
                BeginSetSetting(p, key, value)
          \/ GetSetting(p) \/ SetUpsert(p) \/ SetCommit(p)
          \/ Crash(p)
          \/ Return(p)
    \/ Tick

SpecSettings == InitUsers /\ [][NextSettings]_vars

\* the values stored under a key
Stored(d, key) ==
    {d.settings[i].setting_value :
        i \in {j \in 1..Len(d.settings) : d.settings[j].setting_key = key}}

OneRowPerKey(d) ==
    \A i, j \in 1..Len(d.settings) :
        d.settings[i].setting_key = d.settings[j].setting_key => i = j

AllSettingKeys == SettingKeys \cup Range(DefaultKeys)

\* C27: settings are upserted.  The table never holds two rows with one
\* key; set_setting never fails and its commit leaves exactly its value
\* under its key and every other key as it was; get_setting returns the
\* committed value of the key, which is that of the last committed
\* set_setting, or the default when no row has the key, and changes nothing.
C27_Upsert ==
    /\ [](OneRowPerKey(db) /\ OneRowPerKey(wdb))
    /\ [][\A p \in Procs :
             /\ (pc[p] = "set_upsert" /\ pc'[p] # "set_upsert") =>
                   pc'[p] = "set_commit" /\ db' = db
             /\ (pc[p] = "set_commit" /\ pc'[p] = "done" /\ ret'[p] # RetCrashed) =>
                   /\ ret'[p] = RetBool(TRUE)
                   /\ Stored(db', op[p].key) = {op[p].value}
                   /\ \A k \in AllSettingKeys \ {op[p].key} :
                         Stored(db', k) = Stored(db, k)
             /\ (pc[p] = "set_get" /\ pc'[p] = "done") =>
                   /\ db' = db /\ wdb' = wdb
                   /\ ret'[p].kind = "str"
                   /\ Stored(db, op[p].key) \in {{}, {ret'[p].value}}
                   /\ Stored(db, op[p].key) = {} => ret'[p].value = op[p].default]_vars

\* a get of a key that was never set has returned the default; a set of a
\* key that init_db had stored has replaced the value in its one row
C27_Witness ==
    /\ pc["p1"] = "done" /\ op["p1"].name = "get_setting"
    /\ op["p1"].key = "theme" /\ ret["p1"] = RetStr("dflt")
    /\ pc["p2"] = "done" /\ op["p2"].name = "set_setting"
    /\ op["p2"].key = "password_min_length" /\ op["p2"].value = "8"
    /\ Stored(db, "password_min_length") = {"8"}
    /\ \E i \in 1..Len(db.settings) :
          /\ db.settings[i].setting_key = "password_min_length"
          /\ db.settings[i].updated_at = ToString(MaxNow)
    /\ Len(db.settings) = 3

----------------------------------------------------------------------------
(* Append-only history and comments *)

\* C28: no step of a store call removes or changes a stored history entry
\* or comment: the rows of task_history and of task_comments before a step
\* are a prefix of the rows after it, and so are, for every task, the
\* history and the comment list that get_task would return.
C28_AppendOnly ==
    [][/\ IsPrefix(db.history, db'.history)
       /\ IsPrefix(db.comments, db'.comments)
       /\ \A id \in TaskIds :
             /\ IsPrefix(SelectHistory(db, id), SelectHistory(db', id))
             /\ IsPrefix(SelectComments(db, id), SelectComments(db', id))]_vars

\* a task has got a comment after its creation, at a later time
C28_Witness ==
    /\ Len(db.history) = 2 /\ Len(db.comments) = 1
    /\ db.history[1].action = ActionCreated
    /\ db.history[2].action = ActionComment
    /\ db.history[2].task_id = db.history[1].task_id
    /\ db.comments[1].task_id = db.history[1].task_id
    /\ db.history[2].timestamp > db.history[1].timestamp

----------------------------------------------------------------------------
(* The assignee of a task *)

\* C29: in every state reached through the request handlers the
\* assigned_to of every stored task is NULL or the name of a stored user
\* (no handler of this specification removes or renames a user).
C29_AssigneeExists ==
    \A i \in 1..Len(db.tasks) :
        \/ db.tasks[i].assigned_to = NULL
        \/ user_name_exists(db, db.tasks[i].assigned_to)

----------------------------------------------------------------------------
(* Concurrent updates of one task *)

MaxRaceHist == 3

\* room for the history entries of a creation and of two updates
RaceBudget ==
    Len(wdb.history) + Cardinality({p \in Procs : pc[p] \in BeforeHistory})
        < MaxRaceHist

BeginUpdateRace(p, task_id, updates, user) ==
    /\ RaceBudget
    /\ Call(p, [name |-> "update_task", task_id |-> task_id, updates |-> updates,
                user |-> user], "upd_select")

NextRace ==
    \E p \in Procs :
        \/ \E task_data \in TaskData : BeginCreate(p, task_data)
        \/ \E id \in TaskIds, updates \in RacingMaps, user \in Actors :
              BeginUpdateRace(p, id, updates, user)
        \/ GenNumber(p) \/ InsTask(p) \/ InsHist(p) \/ Commit(p)
        \/ UpdSelect(p) \/ UpdWrite(p) \/ UpdHist(p)
        \/ GetRow(p) \/ GetHist(p) \/ GetComm(p)
        \/ Return(p)

SpecRace == InitUtc /\ [][NextRace]_vars

\* the history of task id records the changes of field key as a chain from
\* the value at creation to the stored value
Chained(d, id, key, initial) ==
    LET h == SelectHistory(d, id)
    IN  /\ \A n \in 1..Len(h) :
              key \in DOMAIN h[n].changes =>
                  h[n].changes[key].from = LastTo(SubSeq(h, 1, n - 1), key, initial)
        /\ TaskRow(d, id)[key] = LastTo(h, key, initial)

\* C30: however update calls on one task interleave, the committed history
\* of the task is consistent with its row: for status and for progress, the
\* from value of every entry that changes the field is the to value of the
\* previous entry that changed it, or the value at creation, and the to
\* value of the last such entry is the stored value.
C30_HistoryChain ==
    \A id \in 1..Len(db.tasks) :
        /\ Chained(db, id, "status", StatusNew)
        /\ Chained(db, id, "progress", 0)

----------------------------------------------------------------------------
(* The enumerations of a task *)

\* C31: in every state reached through the request handlers every stored
\* task has a status of STATUS_LABELS, a priority of PRIORITY_LABELS and an
\* urgency of URGENCY_LABELS.
C31_EnumsValid ==
    \A i \in 1..Len(db.tasks) :
        /\ db.tasks[i].status \in STATUS_LABELS
        /\ db.tasks[i].priority \in PRIORITY_LABELS
        /\ db.tasks[i].urgency \in URGENCY_LABELS

----------------------------------------------------------------------------
(* All-or-nothing validation of a PATCH request *)

\* the payload names a field that cannot be patched, or holds a value
\* outside the range of its field, or holds no field
Invalid(d, payload) ==
    \/ payload = <<>>
    \/ \E i \in 1..Len(payload) :
          LET k == payload[i][1]
              v == payload[i][2]
          IN  \/ k \notin {"progress", "priority", "urgency", "assigned_to", "status"}
              \/ k = "progress" /\ (~v.num \/ v.n \notin 0..100)
              \/ k = "priority" /\ v \notin {"critical", "high", "medium", "low"}
              \/ k = "urgency" /\ v \notin {"critical", "high", "medium", "low"}
              \/ k = "status" /\
                    v \notin {"new", "in_progress", "testing", "done", "cancelled"}
              \/ k = "assigned_to" /\ v \notin {NULL, "", "null"}
                    /\ ~\E j \in 1..Len(d.users) : d.users[j].name = v

\* C32: a PATCH request whose payload has an unknown field, a value that
\* fails validation or no field at all is answered with 400 in the step
\* that receives it: no store call is made for it, and the tasks, their
\* updated_at and the history stay as they are, whatever valid fields the
\* payload also holds.  A payload without such a fault is passed to
\* update_task with every field it holds.
C32_PatchAllOrNothing ==
    [][\A id \in TaskIds, payload \in Payloads, name \in Actors :
          HPatch(Main, id, payload, name) =>
              IF Invalid(db, payload)
              THEN /\ pc'[Main] = "done" /\ ret'[Main] = Ret400
                   /\ db' = db /\ wdb' = wdb /\ writer' = writer
              ELSE /\ pc'[Main] = "upd_select"
                   /\ op'[Main].name = "update_task"
                   /\ Len(op'[Main].updates) = Len(payload)]_vars

\* a PATCH request has been answered with 400 while a task was stored, and
\* the task and its history are as its creation left them
C32_Witness ==
    /\ pc[Main] = "done" /\ op[Main].name = "api_update_task"
    /\ ret[Main] = Ret400
    /\ Len(db.tasks) = 1 /\ Len(db.history) = 1
    /\ db.tasks[1].status = StatusNew /\ db.tasks[1].progress = 0
    /\ db.tasks[1].updated_at = db.tasks[1].created_at


(***************************************************************************)
(* The notification queue of src/mail_service.py.  Request threads submit  *)
(* jobs with EmailSender.send_async, one worker thread takes them from the *)
(* queue.Queue and sends them, and the administrator's requests store and  *)
(* verify the SMTP settings the two of them read.                          *)
(***************************************************************************)
MaxJobs == 2

RetValueError == [kind |-> "ValueError"]
RetSMTPException == [kind |-> "SMTPException"]

UsableUnverified(settings) == settings.present

\* `not settings or not settings.get('verified')` is false
Usable(settings) == settings.present /\ settings.verified

\* [email for email in recipients if email]
NonEmpty(recipients) ==
    LET Truthy(email) == email # "" /\ email # NULL
    IN  SelectSeq(recipients, Truthy)

\* the n-th EmailJob the queue was given
EmailJob(n, recipients, subject) ==
    [id |-> n, recipients |-> recipients, subject |-> subject]

RecipientLists == {<<"", NULL>>, <<"a@x">>, <<"", "a@x">>}
Subjects == {"task created"}
SmtpConfigs ==
    {[smtp_server |-> "mx", admin_email |-> "root@x"],
     [smtp_server |-> "mx", admin_email |-> NULL],
     [smtp_server |-> NULL, admin_email |-> "root@x"]}
AdminEmails == {NULL, "root@x"}
Tokens == {"000001", "000002"}
TokenSalts == {"s1"}

\* the calls of send_async in flight
Submitting == {p \in Procs : pc[p] \in {"mail_check", "mail_put"}}

BeginSendAsync(p, recipients, subject) ==
    /\ mail.puts + Cardinality(Submitting) < MaxJobs
    /\ UserCall(p, [name |-> "send_async", recipients |-> recipients,
                    subject |-> subject], "mail_check")

\* the recipients are filtered and the settings read; False is returned
\* without a job when either is unusable
SendAsyncCheck(p) ==
    /\ pc[p] = "mail_check"
    /\ LET recipients_list == NonEmpty(op[p].recipients)
           settings == mail.settings
       IN  IF recipients_list = <<>> \/ ~Usable(settings)
           THEN Finish(p, RetBool(FALSE))
           ELSE /\ Goto(p, "mail_put")
                /\ loc' = [loc EXCEPT ![p] = [recipients_list |-> recipients_list,
                                              settings |-> settings]]
                /\ UNCHANGED ret
    /\ UNCHANGED <<mail, mig, backups, now, tz, db, wdb, writer, op>>

\* self._queue.put(EmailJob(...)) on a queue without a maximum size, and
\* return True
SendAsyncPut(p) ==
    /\ pc[p] = "mail_put"
    /\ mail' = [mail EXCEPT
                   !.queue = Append(@, EmailJob(mail.puts + 1,
                                                loc[p].recipients_list,
                                                op[p].subject)),
                   !.unfinished_tasks = @ + 1,
                   !.puts = @ + 1]
    /\ Finish(p, RetBool(TRUE))
    /\ UNCHANGED <<mig, backups, now, tz, db, wdb, writer, op>>

\* job = self._queue.get(): the worker waits while the queue is empty
WorkerGet ==
    /\ mail.worker.pc = "get"
    /\ mail.queue # <<>>
    /\ mail' = [mail EXCEPT !.queue = Tail(@),
                            !.worker = [pc |-> "check", job |-> Head(mail.queue),
                                        settings |-> NoSmtp]]
    /\ UNCHANGED <<mig, backups, now, tz, db, wdb, writer, pc, op, loc, ret>>

\* the worker reads the settings: `continue` when they are not usable
WorkerCheck ==
    /\ mail.worker.pc = "check"
    /\ mail' = [mail EXCEPT
                   !.worker = [@ EXCEPT !.settings = mail.settings,
                                        !.pc = IF Usable(mail.settings)
                                               THEN "send" ELSE "task_done"]]
    /\ UNCHANGED <<mig, backups, now, tz, db, wdb, writer, pc, op, loc, ret>>

\* except Exception: the error is logged; finally: task_done comes next
WorkerRaisesUncaught(w) == [w EXCEPT !.pc = "dead"]

WorkerRaises(w) == [w EXCEPT !.pc = "task_done"]

\* _connect, _build_message and smtp.sendmail with the settings the worker
\* read: the server accepts the message, or one of them raises
WorkerSend(accepted) ==
    /\ mail.worker.pc = "send"
    /\ mail' = IF accepted
               THEN [mail EXCEPT !.sent = Append(@, mail.worker.job.id),
                                 !.worker = [@ EXCEPT !.pc = "task_done"]]
               ELSE [mail EXCEPT !.logged = Append(@, mail.worker.job.id),
                                 !.worker = WorkerRaises(@)]
    /\ UNCHANGED <<mig, backups, now, tz, db, wdb, writer, pc, op, loc, ret>>

\* finally: self._queue.task_done(), and the loop takes the next job
WorkerTaskDone ==
    /\ mail.worker.pc = "task_done"
    /\ mail' = [mail EXCEPT !.unfinished_tasks = @ - 1,
                            !.done = Append(@, mail.worker.job.id),
                            !.worker = WorkerWaits]
    /\ UNCHANGED <<mig, backups, now, tz, db, wdb, writer, pc, op, loc, ret>>

\* EmailService.initiate_verification(config), a request of the administrator
BeginInitiateVerification(p, config) ==
    /\ p = Main
    /\ UserCall(p, [name |-> "initiate_verification", config |-> config],
                "ver_send")

\* the address of the administrator is settled (found is the answer of
\* user_manager.get_admin_email()) and a random token is mailed with
\* send_immediate: no address, no host or a refusing server raise
VerifyEmailConfig(p, found, token, accepted) ==
    /\ pc[p] = "ver_send"
    /\ LET admin_email == IF op[p].config.admin_email # NULL
                          THEN op[p].config.admin_email
                          ELSE found
       IN  IF admin_email = NULL \/ op[p].config.smtp_server = NULL
           THEN Finish(p, RetValueError)
           ELSE IF ~accepted
           THEN Finish(p, RetSMTPException)
           ELSE /\ Goto(p, "ver_upsert")
                /\ loc' = [loc EXCEPT ![p] =
                              [persist_config |->
                                  [smtp_server |-> op[p].config.smtp_server,
                                   admin_email |-> admin_email],
                               token |-> token]]
                /\ UNCHANGED ret
    /\ UNCHANGED <<mail, mig, backups, now, tz, db, wdb, writer, op>>

\* token_hash = generate_password_hash(token) under a random salt, and
\* settings_manager.upsert_settings(persist_config,
\*     verification_token_hash=token_hash, verified=False)
UpsertSettings(p, salt) ==
    /\ pc[p] = "ver_upsert"
    /\ mail' = [mail EXCEPT !.settings =
                   [present |-> TRUE, verified |-> FALSE,
                    verification_token_hash |->
                        generate_password_hash(loc[p].token, salt),
                    smtp_server |-> loc[p].persist_config.smtp_server,
                    admin_email |-> loc[p].persist_config.admin_email]]
    /\ Finish(p, RetNone)
    /\ UNCHANGED <<mig, backups, now, tz, db, wdb, writer, op>>

\* EmailService.verify_token(token), a request of the administrator
BeginVerifyToken(p, token) ==
    /\ p = Main
    /\ UserCall(p, [name |-> "verify_token", token |-> token], "tok_get")

\* the settings are read and the token is checked against the stored hash
VerifyTokenCheck(p) ==
    /\ pc[p] = "tok_get"
    /\ LET settings == mail.settings
       IN  IF ~settings.present \/ settings.verification_token_hash = NoHash
           THEN Finish(p, RetBool(FALSE))
           ELSE IF ~check_password_hash(settings.verification_token_hash,
                                        op[p].token)
           THEN Finish(p, RetBool(FALSE))
           ELSE /\ Goto(p, "tok_mark")
                /\ UNCHANGED <<loc, ret>>
    /\ UNCHANGED <<mail, mig, backups, now, tz, db, wdb, writer, op>>

\* settings_manager.mark_verified(), and return True
MarkVerified(p) ==
    /\ pc[p] = "tok_mark"
    /\ mail' = [mail EXCEPT !.settings.verified = TRUE]
    /\ Finish(p, RetBool(TRUE))
    /\ UNCHANGED <<mig, backups, now, tz, db, wdb, writer, op>>

Worker ==
    \/ WorkerGet
    \/ WorkerCheck
    \/ \E accepted \in BOOLEAN : WorkerSend(accepted)
    \/ WorkerTaskDone

MailStep(p) ==
    \/ SendAsyncCheck(p) \/ SendAsyncPut(p)
    \/ \E found \in AdminEmails, token \in Tokens, accepted \in BOOLEAN :
          VerifyEmailConfig(p, found, token, accepted)
    \/ \E salt \in TokenSalts : UpsertSettings(p, salt)
    \/ VerifyTokenCheck(p) \/ MarkVerified(p)
    \/ Return(p)

\* the threads of submitters send notifications, Main serves the
\* administrator
MailNext(submitters) ==
    \/ \E p \in submitters, recipients \in RecipientLists, subject \in Subjects :
          BeginSendAsync(p, recipients, subject)
    \/ \E p \in Procs :
          \/ \E config \in SmtpConfigs : BeginInitiateVerification(p, config)
          \/ \E token \in Tokens : BeginVerifyToken(p, token)
          \/ MailStep(p)
    \/ Worker

NextMail == MailNext(Procs)

SpecMail == InitUtc /\ [][NextMail]_vars

\* the settings a thread or the worker holds were stored and verified
Verified(settings) == settings.present = TRUE /\ settings.verified = TRUE

\* none of the recipients of the call is a non-empty address
NoRecipient(call) ==
    \A i \in 1..Len(call.recipients) : call.recipients[i] \in {"", NULL}

\* C33: the queue worker sends no email unless the SMTP settings were
\* verified both when the job was submitted and when the worker picked it
\* up: send_async returns False and enqueues nothing when no recipient is
\* non-empty or the settings are missing or unverified; a job enters the
\* queue only from a send_async that read verified settings; a job the
\* worker picks up while the settings are unverified goes to task_done
\* without a send; and a message is sent only by the worker, for the job it
\* holds, under verified settings it read at the pickup.
C33_VerifiedTwice ==
    [][/\ \A p \in Procs :
             (pc[p] = "mail_check" /\ pc'[p] # "mail_check"
                 /\ (NoRecipient(op[p]) \/ ~Verified(mail.settings)))
                => /\ pc'[p] = "done"
                   /\ ret'[p] = RetBool(FALSE)
                   /\ mail' = mail
       /\ (mail'.queue # mail.queue /\ Len(mail'.queue) > Len(mail.queue))
             => \E p \in Procs :
                   /\ pc[p] = "mail_put" /\ op[p].name = "send_async"
                   /\ Verified(loc[p].settings)
                   /\ ~NoRecipient(op[p])
                   /\ ret'[p] = RetBool(TRUE)
                   /\ mail'.queue = Append(mail.queue, mail'.queue[Len(mail'.queue)])
       /\ (mail.worker.pc = "check" /\ mail'.worker # mail.worker)
             => /\ mail'.worker.settings = mail.settings
                /\ mail'.sent = mail.sent
                /\ ~Verified(mail.settings) => mail'.worker.pc = "task_done"
       /\ mail'.sent # mail.sent
             => /\ mail.worker.pc = "send"
                /\ Verified(mail.worker.settings)
                /\ mail.worker.job.id \in 1..mail.puts
                /\ mail'.sent = Append(mail.sent, mail.worker.job.id)]_vars

\* job 1 was sent, and job 2, picked up after the settings were replaced by
\* unverified ones, is on its way to task_done without a send
C33_Witness ==
    /\ mail.sent = <<1>>
    /\ mail.done = <<1>>
    /\ mail.worker.pc = "task_done"
    /\ mail.worker.job.id = 2
    /\ mail.worker.settings.present
    /\ ~mail.worker.settings.verified

\* one thread serves the administrator, the other ones submit notifications
NextMailLive == MailNext(Procs \ {Main})

\* The worker is a thread of its own whose SMTP calls time out, and put on
\* a queue without a maximum size does not wait: a step of the worker or of
\* a call that is possible is taken.
SpecMailLive ==
    /\ InitUtc
    /\ [][NextMailLive]_vars
    /\ WF_vars(Worker)
    /\ \A p \in Procs : WF_vars(MailStep(p))

\* task_done was called for job n
Done(n) == \E i \in 1..Len(mail.done) : mail.done[i] = n

\* the worker is in its loop, no job is marked done twice, the queue's count
\* of unfinished tasks is the accepted jobs not yet done, and a finished
\* send_async has returned True or False
MailSafe ==
    /\ mail.worker.pc \in {"get", "check", "send", "task_done"}
    /\ \A i, j \in 1..Len(mail.done) : mail.done[i] = mail.done[j] => i = j
    /\ \A i \in 1..Len(mail.done) : mail.done[i] \in 1..mail.puts
    /\ mail.unfinished_tasks = mail.puts - Len(mail.done)
    /\ \A p \in Procs :
          (pc[p] = "done" /\ op[p].name = "send_async")
             => ret[p] \in {RetBool(TRUE), RetBool(FALSE)}

\* C34: submitting a notification neither blocks nor fails the submitter and
\* the worker never stops: a started send_async returns True or False,
\* every job it accepted is eventually taken from the queue and marked done,
\* exactly once, whether its send succeeds, raises or is skipped, and a job
\* whose send raised does not keep a later job from being processed.
C34_EveryJobDone ==
    /\ []MailSafe
    /\ \A p \in Procs : (pc[p] \in {"mail_check", "mail_put"}) ~> (pc[p] = "done")
    /\ \A n \in 1..MaxJobs : (mail.puts >= n) ~> Done(n)

\* the send of job 1 raised and was logged, job 2 was sent after it, and
\* both are marked done
C34_Witness ==
    /\ mail.logged = <<1>>
    /\ mail.sent = <<2>>
    /\ mail.done = <<1, 2>>
    /\ mail.worker.pc = "get"
    /\ mail.unfinished_tasks = 0
====
